---- MODULE Spec2Model ----
(***************************************************************************)
(* Print queue (internal/printer/queue.go), connection pool, identity      *)
(* registry (internal/registry/registry.go), printer Manager with its      *)
(* background network sweep and the addresses it probes, Monitor and the   *)
(* callbacks delivered, command executor (internal/command) and the        *)
(* goroutines' accesses to shared memory of receipt-engine.                *)
(***************************************************************************)
EXTENDS Integers, Sequences, FiniteSets, TLC

\* ---------------------------------------------------------------- bounds
\* number of Enqueue calls explored
MaxJobs == 3
\* largest clock reading explored (time.Now().UnixNano())
MaxClock == 1
\* largest maxRetries argument NewPrintQueue is constructed with
MaxRetriesArg == 2
\* largest maxRetries argument explored with the scripted driver
MaxRetriesScripted == 3
\* largest number of leading failed writes of the scripted driver
MaxFailFirst == 4

\* number of uuid.New() calls explored
MaxUuid == 2

\* number of ticks of the Monitor explored
MaxTicks == 4
\* driver connections opened by the pool in one run
MaxOpens == 3
\* Printer records allocated for one printer id in one run
MaxRecords == 2
\* commands executed in one run
MaxCommands == 2

\* logical printer ids jobs are enqueued for
PrinterIds == {"p1"}

\* a nil *PrintJob / nil error
NoJob == [ptr |-> 0, id |-> <<"job", -1>>, printer |-> ""]
NoError == ""
\* the driver is not scripted: every open and every write may fail or succeed
Unscripted == [scripted |-> FALSE, failFirst |-> 0]

\* the driver opens, fails its first k writes and succeeds afterwards
Scripted(k) == [scripted |-> TRUE, failFirst |-> k]

VARIABLES
    maxRetries,  \* PrintQueue.maxRetries
    jobs,        \* PrintQueue.jobs, the slice of *PrintJob in slice order
    cancelled,   \* PrintQueue.ctx is cancelled
    now,         \* the reading time.Now().UnixNano() returns
    nextPtr,     \* allocation counter: the identity of the next *PrintJob
    wpc,         \* position of the worker goroutine
    cur,         \* processNextJob's local variable job
    werr,        \* processNextJob's local variable err
    printers,    \* Manager.printers as the queue reads it: the ids it holds
    conns,       \* ConnectionPool.connections, the ids with an entry
    driver,      \* the behaviour of the device driver: Unscripted or Scripted(k)
    hist,        \* per allocated job: id returned, promotions, writes, successes
    regData,     \* Registry.data: identity key -> PrinterEntry
    regFile,     \* the document in the file at Registry.filePath
    disk,        \* the disk of that file: "sound", or "failing" when a write
                 \* can fail or be cut short
    nextUuid,    \* the number of uuid.New() calls so far, plus one
    regRet,      \* the last Registry call: its argument and the value returned
    regUnsaved,  \* a save of this Registry instance has failed
    regIssued,   \* per identity key: the ids GetPrinterID ever returned
    regLive,     \* per identity key: the ids returned since its entry was removed
    live,        \* Manager.printers as the Manager builds it: id -> Printer
    detRet,      \* the list the last DetectPrinters call returned
    addRet,      \* the id the last AddNetworkPrinter call returned
    networkScanStarted,  \* Manager.networkScanStarted
    scanLaunches,        \* the number of go m.scanNetworkInBackground() so far
    spc,         \* position of the scanNetworkInBackground goroutine
    sloc,        \* its locals for the address that answered: id and printer,
                 \* and whether AddNetworkPrinter had returned before
    mpc,         \* position of the Monitor goroutine
    mstopped,    \* Monitor.Stop has returned (Monitor.ctx is cancelled)
    previousPrinters,    \* the ids in the map previousPrinters of Monitor.Start
    ticks,       \* the number of ticker.C receptions of the Monitor so far
    evlog,       \* per id: the callbacks the Monitor has invoked, in order
    connections, \* ConnectionPool.connections: id -> the driver connection
    handles,     \* the driver connections opened so far, in order: the id
                 \* each was opened for, closed or not, a write failed or
                 \* not, and the task holding the connection's mutex c.mu
    pmu,         \* the task holding ConnectionPool.mu for writing, or "none"
    ptask,       \* per task calling the pool: its position and its locals
    deviceState, \* per printer id: its device is "reachable" or "away"
    apc,         \* per goroutine: started or not, the call it is in, the
                 \* instruction it is at and the *Printer it holds
    amu,         \* per mutex: the goroutine inside a critical section of
                 \* several steps under it, or "none"
    curRecord,   \* the number of Printer records allocated so far; the last
                 \* one is the record in Manager.printers
    cmd,         \* the locals of the handlePrint call in progress, if any
    result,      \* the Result the last Execute returned, with its command
    cmdCount,    \* the number of Execute calls so far
    exitTimer,   \* the exit code a time.AfterFunc is to exit with, -1: none
    probe        \* the locals of the sweep's loop over the addresses of an
                 \* interface: ip and prefix length of the interface
                 \* address, ip4, i, testIP, and whether testIP is dialled
VARIABLES
    naming,      \* per caller of Manager.SetPrinterName: whether its call
                 \* is between the registry and the live map, and its arguments
    announced    \* the callbacks delivered by any task: the ids whose last
                 \* callback was onPrinterAdded, and the ids onPrinterAdded
                 \* was delivered for twice with no onPrinterRemoved between

qvars == <<maxRetries, jobs, cancelled, now, nextPtr, wpc, cur, werr,
           printers, conns, driver, hist>>

rvars == <<regData, regFile, disk, nextUuid, regRet, regUnsaved, regIssued, regLive>>

mvars == <<live, detRet, addRet, networkScanStarted, scanLaunches, spc, sloc,
           mpc, mstopped, previousPrinters, ticks, evlog>>

pvars == <<connections, handles, pmu, ptask, deviceState>>

\* the components next to the queue, the registry and the Manager
avars == <<apc, amu, curRecord>>

cvars == <<cmd, result, cmdCount, exitTimer>>

nvars == <<probe, naming, announced>>

ovars == <<pvars, avars, cvars, nvars>>

vars == <<qvars, rvars, mvars, ovars>>

\* ------------------------------------------------------------- helpers
Ptrs == 1..MaxJobs

\* fmt.Sprintf("job_%d", time.Now().UnixNano())
JobId(t) == <<"job", t>>

\* the smallest index of a non-empty set of slice indices
FirstIndex(S) == CHOOSE i \in S : \A k \in S : i <= k

\* the scan of processNextJob taking the last queued job instead of the first
NextQueuedLast(js) ==
    LET S == {i \in 1..Len(js) : js[i].status = "queued"}
    IN IF S = {} THEN 0 ELSE CHOOSE i \in S : \A k \in S : k <= i

\* the job the scan of processNextJob stops at (0: none): the first queued one
NextQueued(js) ==
    LET S == {i \in 1..Len(js) : js[i].status = "queued"}
    IN IF S = {} THEN 0 ELSE FirstIndex(S)

RECURSIVE SumWrites(_)
SumWrites(S) ==
    IF S = {} THEN 0
    ELSE LET p == CHOOSE x \in S : TRUE
         IN hist[p].writes + SumWrites(S \ {p})

\* the number of writes the driver has received so far
DriverWrites == SumWrites(Ptrs)

\* the results the next driver write can have (TRUE = written)
WriteOutcomes ==
    IF driver.scripted THEN {DriverWrites >= driver.failFirst} ELSE BOOLEAN

\* the results Pool.Connect can have when it opens a driver (TRUE = opened)
ConnectOutcomes ==
    IF driver.scripted THEN {TRUE} ELSE BOOLEAN

\* ------------------------------------------------------------ registry
\* fmt.Sprintf("%04X", n) of a uint16: its four hexadecimal digits
Hex4(n) == <<(n \div 4096) % 16, (n \div 256) % 16, (n \div 16) % 16, n % 16>>

\* md5.Sum([]byte(text)) printed with %x: a digest, taken to be collision free
Md5(text) == <<"md5", text>>

\* uuid.New().String() of the n-th call
Uuid(n) == <<"uuid", n>>

NoId == <<"uuid", 0>>

PrinterInfo(type, description, device, vid, pid, host, port) ==
    [Type |-> type, Description |-> description, Device |-> device,
     VID |-> vid, PID |-> pid, Host |-> host, Port |-> port]

NoInfo == PrinterInfo("", "", "", 0, 0, "", 0)

\* the PrinterInfo values detection hands to the registry
Infos ==
    { PrinterInfo("usb", "USB: Epson TM-T20 (04B8:0E15)", "", 1208, 3605, "", 0),
      PrinterInfo("usb", "USB: 04B8:0E15", "", 1208, 3605, "", 0),
      PrinterInfo("usb", "Epson", "", 0, 3605, "", 0),
      PrinterInfo("serial", "Serial: ttyUSB0", "/dev/ttyUSB0", 0, 0, "", 0),
      PrinterInfo("network", "Kiosk", "", 0, 0, "192.168.1.100", 9100),
      PrinterInfo("network", "Epson", "", 0, 0, "", 9100) }

GenerateIdentityKey(info) ==
    IF info.Type = "usb" /\ info.VID # 0 /\ info.PID # 0
    THEN <<"usb", Hex4(info.VID), Hex4(info.PID)>>
    ELSE IF info.Type = "serial" /\ info.Device # ""
    THEN <<"serial", info.Device, "">>
    ELSE IF info.Type = "network" /\ info.Host # ""
    THEN <<"network", info.Host, info.Port>>
    ELSE <<"hash", Md5(info.Description), "">>

Keys == {GenerateIdentityKey(info) : info \in Infos}

Uuids == {Uuid(n) : n \in 1..MaxUuid}

\* the custom names a caller sets
Names == {"", "Kitchen"}

\* the keys of the entries whose ID is printerID
KeysOfId(data, printerID) == {k \in DOMAIN data : data[k].ID = printerID}

\* the fields of a PrinterEntry, the ones tagged omitempty, and the zero
\* value of each
EntryFields ==
    {"ID", "IdentityKey", "Type", "VID", "PID", "Device", "Host", "Port",
     "Description", "Name"}

OmitEmpty == {"VID", "PID", "Device", "Host", "Port", "Name"}

ZeroOf(f) ==
    IF f \in {"VID", "PID", "Port"} THEN 0
    ELSE IF f = "ID" THEN NoId
    ELSE IF f = "IdentityKey" THEN <<"", "", "">>
    ELSE ""

\* json.MarshalIndent writing the name of an entry always as empty
MarshalEntryNoName(e) ==
    [f \in {g \in EntryFields \ {"Name"} :
                g \notin OmitEmpty \/ e[g] # ZeroOf(g)} |-> e[f]]

\* json.MarshalIndent of one entry: the object of its fields, without the
\* omitempty fields that hold their zero value (strings are valid UTF-8)
MarshalEntry(e) ==
    [f \in {g \in EntryFields : g \notin OmitEmpty \/ e[g] # ZeroOf(g)} |-> e[f]]

\* json.Unmarshal of one object: a field the object lacks keeps its zero value
UnmarshalEntry(d) ==
    [f \in EntryFields |-> IF f \in DOMAIN d THEN d[f] ELSE ZeroOf(f)]

Marshal(data) == [k \in DOMAIN data |-> MarshalEntry(data[k])]

Unmarshal(doc) == [k \in DOMAIN doc |-> UnmarshalEntry(doc[k])]

\* the file after a save of the map data that succeeded
Whole(data) == [state |-> "whole", doc |-> Marshal(data)]

\* the file contents r.save() can leave behind for the map data:
\* the whole new document, or on a failed os.WriteFile the old contents or
\* a truncated document
SaveResults(data) ==
    IF disk = "sound" THEN {Whole(data)}
    ELSE { Whole(data),
           regFile,
           [state |-> "partial", doc |-> <<>>] }

\* registry.New has returned a Registry and not (nil, err)
RegistryOpen == ~(regRet.op = "new" /\ ~regRet.ok)

InitRegistry ==
    /\ regData = <<>>
    /\ regFile = [state |-> "missing", doc |-> <<>>]
    /\ nextUuid = 1
    /\ regRet = [op |-> "new", info |-> NoInfo, id |-> NoId, name |-> "",
                 ok |-> TRUE, saved |-> "none"]
    /\ regUnsaved = FALSE
    /\ regIssued = [k \in Keys |-> {}]
    /\ regLive = [k \in Keys |-> {}]

\* a nil *Printer
NoPrinter ==
    [ID |-> NoId, Type |-> "", Description |-> "", Device |-> "", VID |-> 0,
     PID |-> 0, Host |-> "", Port |-> 0, Name |-> ""]

\* NewManager, and NewMonitor before Start
InitManager ==
    /\ live = <<>>
    /\ detRet = <<>>
    /\ addRet = NoId
    /\ networkScanStarted = FALSE
    /\ scanLaunches = 0
    /\ spc = "none"
    /\ sloc = [printer |-> NoPrinter, afterAdd |-> FALSE]
    /\ mpc = "new"
    /\ mstopped = FALSE
    /\ previousPrinters = {}
    /\ ticks = 0
    /\ evlog = <<>>

\* NewConnectionPool, with every device present
InitPool ==
    /\ connections = <<>>
    /\ handles = <<>>
    /\ pmu = "none"
    /\ ptask = [t \in {"t1", "t2"} |->
                  [pc |-> "idle", op |-> "", printer |-> "", conn |-> 0,
                   err |-> ""]]
    /\ deviceState = [id \in {"p1", "p2"} |-> "reachable"]

\* the process at the start of main, before any goroutine is launched
InitAccess ==
    /\ apc = [g \in {"main", "sweep", "worker", "monitor", "h1", "h2"} |->
                [started |-> g = "main",
                 prog |-> IF g = "main" THEN "main" ELSE "",
                 i |-> IF g = "main" THEN 1 ELSE 0,
                 rec |-> 0]]
    /\ amu = [x \in {"m.mu", "q.mu", "p.mu", "r.mu"} |-> "none"]
    /\ curRecord = 0

\* NewExecutor, before any command
InitCommand ==
    /\ cmd = [pc |-> "idle", printer |-> "", repeat |-> 0, n |-> 0]
    /\ result = [parts |-> <<>>, receiptOk |-> FALSE, renderOk |-> FALSE,
                 base |-> 0, Success |-> FALSE, Error |-> "", repeat |-> 0,
                 jobIDs |-> 0]
    /\ cmdCount = 0
    /\ exitTimer = 0 - 1

\* the sweep before it has reached an interface
InitProbe ==
    probe = [ip |-> <<0, 0, 0, 0>>, prefix |-> 0 - 1, ip4 |-> <<0, 0, 0, 0>>,
             i |-> 0, testIP |-> <<0, 0, 0, 0>>, dialled |-> FALSE]

\* no Manager.SetPrinterName call is in progress
InitNaming ==
    naming = [c \in {"c1", "c2"} |-> [pc |-> "idle", id |-> NoId, name |-> ""]]

\* no callback has been delivered
InitAnnounced ==
    announced = [on |-> {}, twice |-> {}]

InitOther ==
    /\ InitPool
    /\ InitAccess
    /\ InitCommand
    /\ InitProbe
    /\ InitNaming
    /\ InitAnnounced

\* ---------------------------------------------------------------- Init
InitQueue ==
    /\ jobs = <<>>
    /\ cancelled = FALSE
    /\ now = 0
    /\ nextPtr = 1
    /\ wpc = "idle"
    /\ cur = NoJob
    /\ werr = NoError
    /\ conns = {}
    /\ hist = [p \in Ptrs |-> [id |-> NoJob.id, attempts |-> 0, writes |-> 0,
                               okWrites |-> 0]]

Init ==
    /\ InitQueue
    /\ InitRegistry
    /\ InitManager
    /\ InitOther
    /\ disk = "failing"
    /\ maxRetries \in 0..MaxRetriesArg
    /\ printers \in SUBSET PrinterIds
    /\ driver = Unscripted

\* ------------------------------------------------------------- actions
\* the wall clock moves on between two readings
ClockAdvance ==
    /\ now < MaxClock
    /\ now' = now + 1
    /\ UNCHANGED <<maxRetries, jobs, cancelled, nextPtr, wpc, cur, werr,
                   printers, conns, driver, hist, rvars, mvars, ovars>>

Enqueue(printerID) ==
    /\ nextPtr <= MaxJobs
    /\ jobs' = Append(jobs, [ptr |-> nextPtr, id |-> JobId(now),
                             printer |-> printerID, retries |-> 0,
                             status |-> "queued", err |-> NoError])
    /\ nextPtr' = nextPtr + 1
    /\ hist' = [hist EXCEPT ![nextPtr].id = JobId(now)]
    /\ UNCHANGED <<maxRetries, cancelled, now, wpc, cur, werr,
                   printers, conns, driver, rvars, mvars, ovars>>

\* processNextJob up to the call of printJob; a tick that finds no queued
\* job returns at once and leaves the state as it is
WorkerTick ==
    /\ wpc = "idle"
    /\ NextQueued(jobs) # 0
    /\ LET i == NextQueued(jobs) IN
        /\ jobs' = [jobs EXCEPT ![i].status = "printing"]
        /\ cur' = [ptr |-> jobs[i].ptr, id |-> jobs[i].id,
                   printer |-> jobs[i].printer]
        /\ hist' = [hist EXCEPT ![jobs[i].ptr].attempts = @ + 1]
    /\ wpc' = "connect"
    /\ UNCHANGED <<maxRetries, cancelled, now, nextPtr, werr,
                   printers, conns, driver, rvars, mvars, ovars>>

\* printJob up to the call of pool.Print: IsConnected, GetPrinter, Connect
WorkerConnect ==
    /\ wpc = "connect"
    /\ \/ /\ cur.printer \in conns
          /\ wpc' = "print"
          /\ UNCHANGED <<werr, conns>>
       \/ /\ cur.printer \notin conns
          /\ cur.printer \notin printers
          /\ werr' = "printer not found"
          /\ wpc' = "resolve"
          /\ UNCHANGED conns
       \/ /\ cur.printer \notin conns
          /\ cur.printer \in printers
          /\ \E opened \in ConnectOutcomes :
                IF opened
                THEN /\ conns' = conns \cup {cur.printer}
                     /\ wpc' = "print"
                     /\ UNCHANGED werr
                ELSE /\ werr' = "failed to connect to printer"
                     /\ wpc' = "resolve"
                     /\ UNCHANGED conns
    /\ UNCHANGED <<maxRetries, jobs, cancelled, now, nextPtr, cur,
                   printers, driver, hist, rvars, mvars, ovars>>

\* pool.Print and the rest of printJob: one driver write of the encoded image
WorkerPrint ==
    /\ wpc = "print"
    /\ IF cur.printer \notin conns
       THEN /\ werr' = "print failed"
            /\ UNCHANGED hist
       ELSE \E written \in WriteOutcomes :
            /\ werr' = IF written THEN NoError ELSE "print failed"
            /\ hist' = [hist EXCEPT
                    ![cur.ptr].writes = @ + 1,
                    ![cur.ptr].okWrites = IF written THEN @ + 1 ELSE @]
    /\ wpc' = "resolve"
    /\ UNCHANGED <<maxRetries, jobs, cancelled, now, nextPtr, cur,
                   printers, conns, driver, rvars, mvars, ovars>>

\* processNextJob updating the job found without looking at its status
ResolvedUnchecked(js, id, err, mr) ==
    IF {i \in 1..Len(js) : js[i].id = id} = {}
    THEN js
    ELSE LET i == FirstIndex({k \in 1..Len(js) : js[k].id = id}) IN
         IF err # NoError
         THEN [js EXCEPT ![i].retries = @ + 1,
                         ![i].err = err,
                         ![i].status = IF js[i].retries + 1 >= mr
                                       THEN "failed" ELSE "queued"]
         ELSE [js EXCEPT ![i].status = "completed"]

\* processNextJob comparing Retries > maxRetries instead of >=
ResolvedOffByOne(js, id, err, mr) ==
    IF {i \in 1..Len(js) : js[i].id = id} = {}
    THEN js
    ELSE LET i == FirstIndex({k \in 1..Len(js) : js[k].id = id}) IN
         IF js[i].status # "printing" THEN js
         ELSE IF err # NoError
              THEN [js EXCEPT ![i].retries = @ + 1,
                              ![i].err = err,
                              ![i].status = IF js[i].retries + 1 > mr
                                            THEN "failed" ELSE "queued"]
              ELSE [js EXCEPT ![i].status = "completed"]

\* the job processNextJob updates: the first one whose ID equals job.ID
Resolved(js, id, err, mr) ==
    IF {i \in 1..Len(js) : js[i].id = id} = {}
    THEN js
    ELSE LET i == FirstIndex({k \in 1..Len(js) : js[k].id = id}) IN
         IF js[i].status # "printing" THEN js
         ELSE IF err # NoError
              THEN [js EXCEPT ![i].retries = @ + 1,
                              ![i].err = err,
                              ![i].status = IF js[i].retries + 1 >= mr
                                            THEN "failed" ELSE "queued"]
              ELSE [js EXCEPT ![i].status = "completed"]

\* processNextJob after printJob has returned
WorkerResolve ==
    /\ wpc = "resolve"
    /\ jobs' = Resolved(jobs, cur.id, werr, maxRetries)
    /\ wpc' = "idle"
    /\ cur' = NoJob
    /\ werr' = NoError
    /\ UNCHANGED <<maxRetries, cancelled, now, nextPtr,
                   printers, conns, driver, hist, rvars, mvars, ovars>>

\* the worker's select takes the ctx.Done() case
WorkerExit ==
    /\ wpc = "idle"
    /\ cancelled
    /\ wpc' = "exited"
    /\ UNCHANGED <<maxRetries, jobs, cancelled, now, nextPtr, cur, werr,
                   printers, conns, driver, hist, rvars, mvars, ovars>>

\* ClearCompleted keeping only the jobs that are still to be printed
ClearCompletedAndFailed ==
    /\ jobs' = SelectSeq(jobs, LAMBDA j : j.status \notin {"completed", "failed"})
    /\ UNCHANGED <<maxRetries, cancelled, now, nextPtr, wpc, cur, werr,
                   printers, conns, driver, hist, rvars, mvars, ovars>>

ClearCompleted ==
    /\ jobs' = SelectSeq(jobs, LAMBDA j : j.status # "completed")
    /\ UNCHANGED <<maxRetries, cancelled, now, nextPtr, wpc, cur, werr,
                   printers, conns, driver, hist, rvars, mvars, ovars>>

\* Stop: q.cancel(); q.wg.Wait() returns once the worker has exited
Stop ==
    /\ ~cancelled
    /\ cancelled' = TRUE
    /\ UNCHANGED <<maxRetries, jobs, now, nextPtr, wpc, cur, werr,
                   printers, conns, driver, hist, rvars, mvars, ovars>>

\* Stop returning right after q.cancel(), without q.wg.Wait()
StopReturnedNoWait == cancelled

\* Stop has returned: q.cancel() is done and q.wg.Wait() has seen the
\* worker's wg.Done()
StopReturned == cancelled /\ wpc = "exited"

\* DetectPrinters replaces the live map by the snapshot of present printers
DetectPrinters(found) ==
    /\ printers' = found
    /\ UNCHANGED <<maxRetries, jobs, cancelled, now, nextPtr, wpc, cur, werr, conns, driver, hist, rvars, mvars, ovars>>

Next ==
    \/ ClockAdvance
    \/ \E p \in PrinterIds : Enqueue(p)
    \/ WorkerTick
    \/ WorkerConnect
    \/ WorkerPrint
    \/ WorkerResolve
    \/ WorkerExit
    \/ ClearCompleted
    \/ Stop
    \/ \E found \in SUBSET PrinterIds : DetectPrinters(found)

Spec == Init /\ [][Next]_vars

\* the worker goroutine keeps running and every connect / print call returns
LiveSpec ==
    /\ Init
    /\ [][Next]_vars
    /\ WF_vars(WorkerTick)
    /\ WF_vars(WorkerConnect)
    /\ WF_vars(WorkerPrint)
    /\ WF_vars(WorkerResolve)

\* one job, a known printer that opens, and a driver that fails its first
\* failFirst writes and succeeds afterwards
InitRetry ==
    /\ InitQueue
    /\ InitRegistry
    /\ InitManager
    /\ InitOther
    /\ disk = "failing"
    /\ maxRetries \in 1..MaxRetriesScripted
    /\ printers = PrinterIds
    /\ driver \in {Scripted(k) : k \in 0..MaxFailFirst}

EnqueueFirst(printerID) ==
    /\ nextPtr = 1
    /\ Enqueue(printerID)

NextRetry ==
    \/ ClockAdvance
    \/ \E p \in PrinterIds : EnqueueFirst(p)
    \/ WorkerTick
    \/ WorkerConnect
    \/ WorkerPrint
    \/ WorkerResolve
    \/ WorkerExit
    \/ ClearCompleted
    \/ Stop

SpecRetry == InitRetry /\ [][NextRetry]_vars

\* ---------------------------------------------------- registry actions
\* the entry GetPrinterID stores for info under identityKey
NewEntry(info, identityKey, printerID) ==
    [ID |-> printerID, IdentityKey |-> identityKey,
     Type |-> info.Type, VID |-> info.VID, PID |-> info.PID,
     Device |-> info.Device, Host |-> info.Host,
     Port |-> info.Port, Description |-> info.Description,
     Name |-> ""]

\* the outcome of the r.save() that left the file as file for the map data
SaveOutcome(file, data) == IF file = Whole(data) THEN "ok" ELSE "failed"

\* GetPrinterID without the lookup of the identity key
GetPrinterIDAlwaysNew(info) ==
    LET identityKey == GenerateIdentityKey(info) IN
    /\ RegistryOpen
    /\ nextUuid <= MaxUuid
    /\ regData' = [k \in DOMAIN regData \cup {identityKey} |->
            IF k = identityKey
            THEN NewEntry(info, identityKey, Uuid(nextUuid))
            ELSE regData[k]]
    /\ nextUuid' = nextUuid + 1
    /\ regFile' \in SaveResults(regData')
    /\ regRet' = [op |-> "get", info |-> info, id |-> Uuid(nextUuid),
                  name |-> "", ok |-> TRUE,
                  saved |-> SaveOutcome(regFile', regData')]
    /\ regUnsaved' = (regUnsaved \/ regFile' # Whole(regData'))
    /\ regIssued' = [regIssued EXCEPT ![identityKey] = @ \cup {regRet'.id}]
    /\ regLive' = [regLive EXCEPT ![identityKey] = @ \cup {regRet'.id}]
    /\ UNCHANGED <<disk, qvars, mvars, ovars>>

GetPrinterID(info) ==
    LET identityKey == GenerateIdentityKey(info) IN
    /\ RegistryOpen
    /\ IF identityKey \in DOMAIN regData
       THEN /\ regRet' = [op |-> "get", info |-> info,
                          id |-> regData[identityKey].ID, name |-> "",
                          ok |-> TRUE, saved |-> "none"]
            /\ UNCHANGED <<regData, regFile, nextUuid, regUnsaved>>
       ELSE /\ nextUuid <= MaxUuid
            /\ regData' = regData @@
                    (identityKey :> NewEntry(info, identityKey, Uuid(nextUuid)))
            /\ nextUuid' = nextUuid + 1
            /\ regFile' \in SaveResults(regData')
            /\ regRet' = [op |-> "get", info |-> info, id |-> Uuid(nextUuid),
                          name |-> "", ok |-> TRUE,
                          saved |-> SaveOutcome(regFile', regData')]
            /\ regUnsaved' = (regUnsaved \/ regFile' # Whole(regData'))
    /\ regIssued' = [regIssued EXCEPT ![identityKey] = @ \cup {regRet'.id}]
    /\ regLive' = [regLive EXCEPT ![identityKey] = @ \cup {regRet'.id}]
    /\ UNCHANGED <<disk, qvars, mvars, ovars>>

\* SetPrinterName undoing the change and returning false when the save fails
SetPrinterNameRollback(printerID, name) ==
    /\ RegistryOpen
    /\ IF KeysOfId(regData, printerID) # {}
       THEN LET named == [k \in DOMAIN regData |->
                    IF regData[k].ID = printerID
                    THEN [regData[k] EXCEPT !.Name = name] ELSE regData[k]]
            IN /\ regFile' \in SaveResults(named)
               /\ regData' = IF regFile' = Whole(named) THEN named ELSE regData
               /\ regRet' = [op |-> "set", info |-> NoInfo, id |-> printerID,
                             name |-> name, ok |-> (regFile' = Whole(named)),
                             saved |-> SaveOutcome(regFile', named)]
               /\ regUnsaved' = (regUnsaved \/ regFile' # Whole(named))
       ELSE /\ regRet' = [op |-> "set", info |-> NoInfo, id |-> printerID,
                          name |-> name, ok |-> FALSE, saved |-> "none"]
            /\ UNCHANGED <<regData, regFile, regUnsaved>>
    /\ UNCHANGED <<disk, nextUuid, regIssued, regLive, qvars, mvars, ovars>>

\* SetPrinterName taking an empty name as no new name
SetPrinterNameIgnoreEmpty(printerID, name) ==
    /\ RegistryOpen
    /\ IF KeysOfId(regData, printerID) # {}
       THEN /\ regData' = [k \in DOMAIN regData |->
                    IF regData[k].ID = printerID /\ name # ""
                    THEN [regData[k] EXCEPT !.Name = name] ELSE regData[k]]
            /\ regFile' \in SaveResults(regData')
            /\ regRet' = [op |-> "set", info |-> NoInfo, id |-> printerID,
                          name |-> name, ok |-> TRUE,
                          saved |-> SaveOutcome(regFile', regData')]
            /\ regUnsaved' = (regUnsaved \/ regFile' # Whole(regData'))
       ELSE /\ regRet' = [op |-> "set", info |-> NoInfo, id |-> printerID,
                          name |-> name, ok |-> FALSE, saved |-> "none"]
            /\ UNCHANGED <<regData, regFile, regUnsaved>>
    /\ UNCHANGED <<disk, nextUuid, regIssued, regLive, qvars, mvars, ovars>>

SetPrinterName(printerID, name) ==
    /\ RegistryOpen
    /\ IF KeysOfId(regData, printerID) # {}
       THEN /\ regData' = [k \in DOMAIN regData |->
                    IF regData[k].ID = printerID
                    THEN [regData[k] EXCEPT !.Name = name] ELSE regData[k]]
            /\ regFile' \in SaveResults(regData')
            /\ regRet' = [op |-> "set", info |-> NoInfo, id |-> printerID,
                          name |-> name, ok |-> TRUE,
                          saved |-> SaveOutcome(regFile', regData')]
            /\ regUnsaved' = (regUnsaved \/ regFile' # Whole(regData'))
       ELSE /\ regRet' = [op |-> "set", info |-> NoInfo, id |-> printerID,
                          name |-> name, ok |-> FALSE, saved |-> "none"]
            /\ UNCHANGED <<regData, regFile, regUnsaved>>
    /\ UNCHANGED <<disk, nextUuid, regIssued, regLive, qvars, mvars, ovars>>

\* RemovePrinter emptying the map when it finds the entry
RemovePrinterAll(printerID) ==
    /\ RegistryOpen
    /\ IF KeysOfId(regData, printerID) # {}
       THEN /\ regData' = <<>>
            /\ regFile' \in SaveResults(regData')
            /\ regRet' = [op |-> "remove", info |-> NoInfo, id |-> printerID,
                          name |-> "", ok |-> TRUE,
                          saved |-> SaveOutcome(regFile', regData')]
            /\ regUnsaved' = (regUnsaved \/ regFile' # Whole(regData'))
            /\ regLive' = [k \in Keys |-> {}]
       ELSE /\ regRet' = [op |-> "remove", info |-> NoInfo, id |-> printerID,
                          name |-> "", ok |-> FALSE, saved |-> "none"]
            /\ UNCHANGED <<regData, regFile, regUnsaved, regLive>>
    /\ UNCHANGED <<disk, nextUuid, regIssued, qvars, mvars, ovars>>

RemovePrinter(printerID) ==
    /\ RegistryOpen
    /\ IF KeysOfId(regData, printerID) # {}
       THEN /\ regData' = [k \in DOMAIN regData \ KeysOfId(regData, printerID)
                             |-> regData[k]]
            /\ regFile' \in SaveResults(regData')
            /\ regRet' = [op |-> "remove", info |-> NoInfo, id |-> printerID,
                          name |-> "", ok |-> TRUE,
                          saved |-> SaveOutcome(regFile', regData')]
            /\ regUnsaved' = (regUnsaved \/ regFile' # Whole(regData'))
            /\ regLive' = [k \in Keys |->
                    IF k \in KeysOfId(regData, printerID) THEN {}
                    ELSE regLive[k]]
       ELSE /\ regRet' = [op |-> "remove", info |-> NoInfo, id |-> printerID,
                          name |-> "", ok |-> FALSE, saved |-> "none"]
            /\ UNCHANGED <<regData, regFile, regUnsaved, regLive>>
    /\ UNCHANGED <<disk, nextUuid, regIssued, qvars, mvars, ovars>>

\* the process ends (or is killed) and a new one calls registry.New on the
\* same file: a missing file gives an empty map, a whole document the map
\* it encodes, and any other content makes New return (nil, err)
RegistryNew ==
    /\ \/ /\ regFile.state = "missing"
          /\ regData' = <<>>
          /\ regRet' = [op |-> "new", info |-> NoInfo, id |-> NoId,
                        name |-> "", ok |-> TRUE, saved |-> "none"]
       \/ /\ regFile.state = "whole"
          /\ regData' = Unmarshal(regFile.doc)
          /\ regRet' = [op |-> "new", info |-> NoInfo, id |-> NoId,
                        name |-> "", ok |-> TRUE, saved |-> "none"]
       \/ /\ regFile.state = "partial"
          /\ regData' = <<>>
          /\ regRet' = [op |-> "new", info |-> NoInfo, id |-> NoId,
                        name |-> "", ok |-> FALSE, saved |-> "none"]
    /\ regUnsaved' = FALSE
    /\ regIssued' = [k \in Keys |-> {}]
    /\ regLive' = [k \in Keys |-> {}]
    /\ UNCHANGED <<regFile, disk, nextUuid, qvars, mvars, ovars>>

RegNext ==
    \/ \E info \in Infos : GetPrinterID(info)
    \/ \E id \in Uuids, name \in Names : SetPrinterName(id, name)
    \/ \E id \in Uuids : RemovePrinter(id)

\* the registry of a server whose queue is idle (cmd/server/main.go:42), on
\* a disk that takes every write of the registry file
RegInit ==
    /\ InitQueue
    /\ InitRegistry
    /\ InitManager
    /\ InitOther
    /\ disk = "sound"
    /\ maxRetries = 3
    /\ printers = {}
    /\ driver = Unscripted

RegSpec == RegInit /\ [][RegNext]_vars

\* the printers a server finds at each of its runs
PersistInfos ==
    { PrinterInfo("usb", "USB: Epson TM-T20 (04B8:0E15)", "", 1208, 3605, "", 0),
      PrinterInfo("network", "Kiosk", "", 0, 0, "192.168.1.100", 9100) }

\* the registry file over several runs of the server
PersistNext ==
    \/ \E info \in PersistInfos : GetPrinterID(info)
    \/ \E id \in Uuids, name \in Names : SetPrinterName(id, name)
    \/ \E id \in Uuids : RemovePrinter(id)
    \/ RegistryNew

\* the same server on a disk whose writes can fail or be cut short
PersistInit ==
    /\ InitQueue
    /\ InitRegistry
    /\ InitManager
    /\ InitOther
    /\ disk = "failing"
    /\ maxRetries = 3
    /\ printers = {}
    /\ driver = Unscripted

PersistSpec == PersistInit /\ [][PersistNext]_vars

\* ------------------------------------------------------------- manager
\* the devices a scan can find: two units of one USB model (detectUSB) and
\* a printer lpstat lists as socket://192.168.1.100:9100 (detectSystemPrinters)
Devices ==
    { [unit |-> 1, info |->
        PrinterInfo("usb", "USB: Epson TM-T20 (04B8:0E15)", "", 1208, 3605, "", 0)],
      [unit |-> 2, info |->
        PrinterInfo("usb", "USB: Epson TM-T20 (04B8:0E15)", "", 1208, 3605, "", 0)],
      [unit |-> 3, info |->
        PrinterInfo("network", "Network: Kiosk (192.168.1.100:9100)", "", 0, 0,
                    "192.168.1.100", 9100)] }

\* the PrinterInfo scanNetworkInBackground builds when 192.168.1.100:9100 answers
SweepInfo ==
    PrinterInfo("network", "Network: 192.168.1.100:9100", "", 0, 0,
                "192.168.1.100", 9100)

\* the PrinterInfo AddNetworkPrinter builds from host, port and description
AddInfo(host, port, description) ==
    PrinterInfo("network", description, "", 0, 0, host, port)

\* the order DetectPrinters meets the devices in: USB, then the print service
RECURSIVE ScanOrder(_)
ScanOrder(S) ==
    IF S = {} THEN <<>>
    ELSE LET d == CHOOSE x \in S : \A y \in S : x.unit <= y.unit
         IN <<d>> \o ScanOrder(S \ {d})

\* GetPrinterID as a function of the map data and the uuid counter n
LookupID(data, n, info) ==
    LET identityKey == GenerateIdentityKey(info) IN
    IF identityKey \in DOMAIN data
    THEN [data |-> data, next |-> n, id |-> data[identityKey].ID,
          created |-> FALSE]
    ELSE [data |-> data @@ (identityKey :> NewEntry(info, identityKey, Uuid(n))),
          next |-> n + 1, id |-> Uuid(n), created |-> TRUE]

\* GetPrinterName: the name of the entry with this ID, "" when there is none
GetPrinterName(data, printerID) ==
    IF KeysOfId(data, printerID) = {} THEN ""
    ELSE data[CHOOSE k \in KeysOfId(data, printerID) : TRUE].Name

\* GetPrinterInfo: a copy of the entry with this ID; the empty set is nil
GetPrinterInfo(data, printerID) ==
    {data[k] : k \in KeysOfId(data, printerID)}

\* the Printer the scanners, AddNetworkPrinter and the sweep build
MakePrinter(id, info, name) ==
    [ID |-> id, Type |-> info.Type, Description |-> info.Description,
     Device |-> info.Device, VID |-> info.VID, PID |-> info.PID,
     Host |-> info.Host, Port |-> info.Port, Name |-> name]

\* the scanners of one DetectPrinters call over the devices devs, from the
\* results acc so far: the map and counter afterwards, the printers
\* appended, the maps save() was called with, the (key, id) pairs returned,
\* and the last call
RECURSIVE Scan(_, _)
Scan(devs, acc) ==
    IF devs = <<>> THEN acc
    ELSE LET info == Head(devs).info
             r == LookupID(acc.data, acc.next, info)
         IN Scan(Tail(devs),
                 [data |-> r.data,
                  next |-> r.next,
                  list |-> Append(acc.list,
                        MakePrinter(r.id, info, GetPrinterName(r.data, r.id))),
                  saves |-> IF r.created THEN acc.saves \cup {r.data}
                            ELSE acc.saves,
                  issued |-> acc.issued \cup {<<GenerateIdentityKey(info), r.id>>},
                  last |-> [op |-> "get", info |-> info, id |-> r.id,
                            name |-> "", ok |-> TRUE,
                            saved |-> IF r.created THEN "called" ELSE "none"]])

\* the ids of a list of printers: the keys of the map built from it
CurrentMap(list) == {list[i].ID : i \in 1..Len(list)}

\* m.printers[p.ID] = p for each p of the list in turn: the last one stays
MapOf(list) ==
    [id \in CurrentMap(list) |->
        list[CHOOSE i \in 1..Len(list) :
                /\ list[i].ID = id
                /\ \A k \in 1..Len(list) : list[k].ID = id => k <= i]]

\* detectNetwork launching the sweep at every call
detectNetworkUnguarded ==
    /\ networkScanStarted' = TRUE
    /\ scanLaunches' = scanLaunches + 1
    /\ spc' = "dial"

\* detectNetwork: the sweep is launched under networkScanMu when
\* networkScanStarted is still false
detectNetwork ==
    IF ~networkScanStarted
    THEN /\ networkScanStarted' = TRUE
         /\ scanLaunches' = scanLaunches + 1
         /\ spc' = "dial"
    ELSE UNCHANGED <<networkScanStarted, scanLaunches, spc>>

\* one call of DetectPrinters, under m.mu, that finds the devices S
DetectPrintersCall(S) ==
    \E r \in {Scan(ScanOrder(S),
                  [data |-> regData, next |-> nextUuid, list |-> <<>>,
                   saves |-> {}, issued |-> {}, last |-> regRet])} :
    /\ RegistryOpen
    /\ regData' = r.data
    /\ nextUuid' = r.next
    /\ regFile' \in IF r.saves = {} THEN {regFile}
                    ELSE IF disk = "sound" THEN {Whole(r.data)}
                    ELSE {Whole(d) : d \in r.saves} \cup SaveResults(r.data)
    /\ regUnsaved' \in IF r.saves = {} THEN {regUnsaved}
                       ELSE IF regFile' # Whole(r.data) THEN {TRUE}
                       ELSE IF Cardinality(r.saves) > 1 /\ disk # "sound"
                            THEN {regUnsaved, TRUE}
                       ELSE {regUnsaved}
    /\ regRet' = IF r.last.saved = "called"
                 THEN [r.last EXCEPT !.saved = SaveOutcome(regFile', r.data)]
                 ELSE r.last
    /\ regIssued' = [k \in Keys |->
            regIssued[k] \cup {x[2] : x \in {y \in r.issued : y[1] = k}}]
    /\ regLive' = [k \in Keys |->
            regLive[k] \cup {x[2] : x \in {y \in r.issued : y[1] = k}}]
    /\ detectNetwork
    /\ live' = MapOf(r.list)
    /\ detRet' = r.list
    /\ UNCHANGED disk

\* DetectPrinters called by a frontend
ManagerDetectPrinters(S) ==
    /\ DetectPrintersCall(S)
    /\ UNCHANGED <<qvars, addRet, sloc, mpc, mstopped, previousPrinters,
                   ticks, evlog, ovars>>

\* the registry part of GetPrinterID without the frame of the other variables
GetPrinterIDCall(info) ==
    \E r \in {LookupID(regData, nextUuid, info)} :
    /\ RegistryOpen
    /\ r.created => nextUuid <= MaxUuid
    /\ regData' = r.data
    /\ nextUuid' = r.next
    /\ regFile' \in IF r.created THEN SaveResults(r.data) ELSE {regFile}
    /\ regUnsaved' = (regUnsaved \/ (r.created /\ regFile' # Whole(r.data)))
    /\ regRet' = [op |-> "get", info |-> info, id |-> r.id, name |-> "",
                  ok |-> TRUE,
                  saved |-> IF r.created THEN SaveOutcome(regFile', r.data)
                            ELSE "none"]
    /\ regIssued' = [regIssued EXCEPT ![GenerateIdentityKey(info)] = @ \cup {r.id}]
    /\ regLive' = [regLive EXCEPT ![GenerateIdentityKey(info)] = @ \cup {r.id}]
    /\ UNCHANGED disk

\* the callbacks delivered so far after onPrinterAdded for the ids added and
\* onPrinterRemoved for the ids removed (main has set both callbacks)
Announce(a, added, removed) ==
    [on |-> (a.on \cup added) \ removed,
     twice |-> a.twice \cup (a.on \cap added)]

AddNetworkPrinter(host, port, description) ==
    \E info \in {AddInfo(host, port, description)} :
    \E r \in {LookupID(regData, nextUuid, info)} :
       /\ GetPrinterIDCall(info)
       /\ live' = [id \in DOMAIN live \cup {r.id} |->
                IF id = r.id
                THEN MakePrinter(r.id, info, GetPrinterName(r.data, r.id))
                ELSE live[id]]
       /\ addRet' = r.id
       /\ announced' = Announce(announced, {r.id}, {})
       /\ UNCHANGED <<qvars, detRet, networkScanStarted, scanLaunches, spc, sloc,
                      mpc, mstopped, previousPrinters, ticks, evlog,
                      pvars, avars, cvars, probe, naming>>

\* Manager.SetPrinterName: the registry first, then the record in the live map
ManagerSetPrinterName(id, name) ==
    /\ RegistryOpen
    /\ IF KeysOfId(regData, id) # {}
       THEN /\ regData' = [k \in DOMAIN regData |->
                    IF regData[k].ID = id
                    THEN [regData[k] EXCEPT !.Name = name] ELSE regData[k]]
            /\ regFile' \in SaveResults(regData')
            /\ regRet' = [op |-> "set", info |-> NoInfo, id |-> id,
                          name |-> name, ok |-> TRUE,
                          saved |-> SaveOutcome(regFile', regData')]
            /\ regUnsaved' = (regUnsaved \/ regFile' # Whole(regData'))
            /\ live' = [p \in DOMAIN live |->
                    IF p = id THEN [live[p] EXCEPT !.Name = name] ELSE live[p]]
       ELSE /\ regRet' = [op |-> "set", info |-> NoInfo, id |-> id,
                          name |-> name, ok |-> FALSE, saved |-> "none"]
            /\ UNCHANGED <<regData, regFile, regUnsaved, live>>
    /\ UNCHANGED <<disk, nextUuid, regIssued, regLive, qvars, detRet, addRet,
                   networkScanStarted, scanLaunches, spc, sloc,
                   mpc, mstopped, previousPrinters, ticks, evlog, ovars>>

\* scanNetworkInBackground: 192.168.1.100:9100 answers the dial and the
\* sweep asks the registry for its id
SweepHit ==
    /\ spc = "dial"
    /\ GetPrinterIDCall(SweepInfo)
    /\ sloc' = [printer |-> [NoPrinter EXCEPT !.ID = regRet'.id],
                afterAdd |-> addRet # NoId]
    /\ spc' = "check"
    /\ UNCHANGED <<qvars, live, detRet, addRet, networkScanStarted, scanLaunches,
                   mpc, mstopped, previousPrinters, ticks, evlog, ovars>>

\* the look into m.printers under the read lock
SweepCheck ==
    /\ spc = "check"
    /\ spc' = IF sloc.printer.ID \in DOMAIN live THEN "done" ELSE "name"
    /\ UNCHANGED <<qvars, rvars, live, detRet, addRet, networkScanStarted,
                   scanLaunches, sloc, mpc, mstopped, previousPrinters,
                   ticks, evlog, ovars>>

\* the sweep building its Printer without asking the registry for the name
SweepNameEmpty ==
    /\ spc = "name"
    /\ sloc' = [sloc EXCEPT !.printer =
            MakePrinter(sloc.printer.ID, SweepInfo, "")]
    /\ spc' = "insert"
    /\ UNCHANGED <<qvars, rvars, live, detRet, addRet, networkScanStarted,
                   scanLaunches, mpc, mstopped, previousPrinters,
                   ticks, evlog, ovars>>

\* the Printer is built with the name the registry holds now
SweepName ==
    /\ spc = "name"
    /\ sloc' = [sloc EXCEPT !.printer =
            MakePrinter(sloc.printer.ID, SweepInfo,
                        GetPrinterName(regData, sloc.printer.ID))]
    /\ spc' = "insert"
    /\ UNCHANGED <<qvars, rvars, live, detRet, addRet, networkScanStarted,
                   scanLaunches, mpc, mstopped, previousPrinters,
                   ticks, evlog, ovars>>

\* m.printers[id] = printer under the write lock, the callback
\* onPrinterAdded after the unlock, and the last addresses
SweepInsert ==
    /\ spc = "insert"
    /\ live' = [id \in DOMAIN live \cup {sloc.printer.ID} |->
            IF id = sloc.printer.ID THEN sloc.printer ELSE live[id]]
    /\ announced' = Announce(announced, {sloc.printer.ID}, {})
    /\ spc' = "done"
    /\ UNCHANGED <<qvars, rvars, detRet, addRet, networkScanStarted,
                   scanLaunches, sloc, mpc, mstopped, previousPrinters,
                   ticks, evlog, pvars, avars, cvars, probe, naming>>

\* no address answers: the sweep returns
SweepEnd ==
    /\ spc = "dial"
    /\ spc' = "done"
    /\ UNCHANGED <<qvars, rvars, live, detRet, addRet, networkScanStarted,
                   scanLaunches, sloc, mpc, mstopped, previousPrinters,
                   ticks, evlog, ovars>>

ManNext ==
    \/ \E S \in SUBSET Devices : ManagerDetectPrinters(S)
    \/ AddNetworkPrinter("192.168.1.100", 9100, "Kiosk")
    \/ \E id \in Uuids, name \in Names : ManagerSetPrinterName(id, name)
    \/ SweepHit
    \/ SweepCheck
    \/ SweepName
    \/ SweepInsert
    \/ SweepEnd

\* a server whose frontends call the Manager; the Manager never sees the
\* result of a save
ManSpec == RegInit /\ [][ManNext]_vars

\* ------------------------------------------------------------- monitor
\* n times the callback x
Repeat(x, n) == [i \in 1..n |-> x]

\* checkChanges calling onPrinterAdded for every printer of the list
AddedCallsPerRecord(list, prev, id) ==
    IF id \notin prev
    THEN Cardinality({i \in 1..Len(list) : list[i].ID = id}) ELSE 0

\* the onPrinterAdded calls of checkChanges for id: one when id is a key of
\* currentMap and not of previousPrinters
AddedCalls(list, prev, id) ==
    IF id \in CurrentMap(list) /\ id \notin prev THEN 1 ELSE 0

\* the onPrinterRemoved calls of checkChanges for id
RemovedCalls(list, prev, id) ==
    IF id \in prev /\ id \notin CurrentMap(list) THEN 1 ELSE 0

\* checkChanges keeping the old keys of previousPrinters
NextSnapshotMerged(list, prev) == prev \cup CurrentMap(list)

\* previousPrinters at the end of checkChanges: emptied, then the current keys
NextSnapshot(list, prev) == CurrentMap(list)

\* Start: the goroutine is launched and waits at its select
MonitorStart ==
    /\ mpc = "new"
    /\ mpc' = "select"
    /\ UNCHANGED <<qvars, rvars, live, detRet, addRet, networkScanStarted,
                   scanLaunches, spc, sloc, mstopped, previousPrinters,
                   ticks, evlog, ovars>>

\* the select takes the ticker case; it can do so with the context
\* cancelled when a tick is pending as well
MonitorTick ==
    /\ mpc = "select"
    /\ ticks < MaxTicks
    /\ mpc' = "check"
    /\ ticks' = ticks + 1
    /\ UNCHANGED <<qvars, rvars, live, detRet, addRet, networkScanStarted,
                   scanLaunches, spc, sloc, mstopped, previousPrinters, evlog, ovars>>

\* checkChanges: DetectPrinters finds the devices S, then the callbacks
\* (both are set by main before Start) and the new previousPrinters
MonitorCheck(S) ==
    /\ mpc = "check"
    /\ DetectPrintersCall(S)
    /\ evlog' = [id \in DOMAIN evlog \cup previousPrinters \cup CurrentMap(detRet') |->
            (IF id \in DOMAIN evlog THEN evlog[id] ELSE <<>>)
            \o Repeat("added", AddedCalls(detRet', previousPrinters, id))
            \o Repeat("removed", RemovedCalls(detRet', previousPrinters, id))]
    /\ announced' = Announce(announced,
            {id \in CurrentMap(detRet') : AddedCalls(detRet', previousPrinters, id) > 0},
            {id \in previousPrinters : RemovedCalls(detRet', previousPrinters, id) > 0})
    /\ previousPrinters' = NextSnapshot(detRet', previousPrinters)
    /\ mpc' = "select"
    /\ UNCHANGED <<qvars, addRet, sloc, mstopped, ticks,
                   pvars, avars, cvars, probe, naming>>

\* Stop: m.cancel(), and the call returns
MonitorStop ==
    /\ ~mstopped
    /\ mstopped' = TRUE
    /\ UNCHANGED <<qvars, rvars, live, detRet, addRet, networkScanStarted,
                   scanLaunches, spc, sloc, mpc, previousPrinters, ticks, evlog, ovars>>

\* the select takes the ctx.Done() case
MonitorExit ==
    /\ mpc = "select"
    /\ mstopped
    /\ mpc' = "exited"
    /\ UNCHANGED <<qvars, rvars, live, detRet, addRet, networkScanStarted,
                   scanLaunches, spc, sloc, mstopped, previousPrinters,
                   ticks, evlog, ovars>>

MonNext ==
    \/ MonitorStart
    \/ MonitorTick
    \/ \E S \in SUBSET Devices : MonitorCheck(S)
    \/ MonitorStop
    \/ MonitorExit

\* the Monitor of a server
MonSpec == RegInit /\ [][MonNext]_vars

\* the Monitor of a server whose frontends add network printers and whose
\* sweep runs
AnnNext ==
    \/ MonitorStart
    \/ MonitorTick
    \/ \E S \in SUBSET Devices : MonitorCheck(S)
    \/ AddNetworkPrinter("192.168.1.100", 9100, "Kiosk")
    \/ SweepHit
    \/ SweepCheck
    \/ SweepName
    \/ SweepInsert
    \/ SweepEnd

AnnSpec == RegInit /\ [][AnnNext]_vars

\* ------------------------------------------------------ connection pool
\* the goroutines that call the pool: the queue worker and a second caller
Tasks == {"t1", "t2"}

\* the printers handed to Connect: a network printer and one of a type the
\* switch of Connect does not know
PoolPrinters ==
    { [ID |-> "p1", Type |-> "network"],
      [ID |-> "p2", Type |-> "bluetooth"] }

\* the types Connect has a case for
SupportedTypes == {"usb", "serial", "network"}

PoolPrinter(id) == CHOOSE p \in PoolPrinters : p.ID = id

\* a task that is in no pool call, with the error of its last call
Idle(err) == [pc |-> "idle", op |-> "", printer |-> "", conn |-> 0, err |-> err]

\* the tasks inside a pool call
Busy == {t \in Tasks : ptask[t].pc # "idle"}

\* the driver connections opened for id and not closed
OpenHandles(id) ==
    {h \in 1..Len(handles) : handles[h].id = id /\ ~handles[h].closed}

\* the results ConnectUSB / ConnectSerial / ConnectNetwork can have for id
\* (TRUE = opened): a device that is away cannot be opened
OpenOutcomes(id) == IF deviceState[id] = "reachable" THEN BOOLEAN ELSE {FALSE}

\* a call of pool.Connect(printer): the caller reaches p.mu.Lock()
ConnectCall(t, id) ==
    /\ ptask[t].pc = "idle"
    /\ Len(handles) + Cardinality(Busy) < MaxOpens
    /\ ptask' = [ptask EXCEPT
            ![t] = [pc |-> "lock", op |-> "connect", printer |-> id,
                    conn |-> 0, err |-> ""]]
    /\ UNCHANGED <<connections, handles, pmu, deviceState>>
    /\ UNCHANGED <<qvars, rvars, mvars, avars, cvars, nvars>>

\* a call of printJob(job) for a job of printer id
PrintJobCall(t, id) ==
    /\ ptask[t].pc = "idle"
    /\ Len(handles) + Cardinality(Busy) < MaxOpens
    /\ ptask' = [ptask EXCEPT
            ![t] = [pc |-> "isconn", op |-> "printJob", printer |-> id,
                    conn |-> 0, err |-> ""]]
    /\ UNCHANGED <<connections, handles, pmu, deviceState>>
    /\ UNCHANGED <<qvars, rvars, mvars, avars, cvars, nvars>>

\* printJob: pool.IsConnected under p.mu.RLock, then manager.GetPrinter
IsConnected(t) ==
    /\ ptask[t].pc = "isconn"
    /\ pmu = "none"
    /\ ptask' = [ptask EXCEPT
            ![t].pc = IF ptask[t].printer \in DOMAIN connections
                      THEN "print" ELSE "lock"]
    /\ UNCHANGED <<connections, handles, pmu, deviceState>>
    /\ UNCHANGED <<qvars, rvars, mvars, avars, cvars, nvars>>

\* p.mu.Lock() taken by any caller, whoever holds it
ConnectLockUnguarded(t) ==
    /\ ptask[t].pc = "lock"
    /\ pmu' = t
    /\ ptask' = [ptask EXCEPT ![t].pc = "check"]
    /\ UNCHANGED <<connections, handles, deviceState>>
    /\ UNCHANGED <<qvars, rvars, mvars, avars, cvars, nvars>>

\* Connect: p.mu.Lock()
ConnectLock(t) ==
    /\ ptask[t].pc = "lock"
    /\ pmu = "none"
    /\ pmu' = t
    /\ ptask' = [ptask EXCEPT ![t].pc = "check"]
    /\ UNCHANGED <<connections, handles, deviceState>>
    /\ UNCHANGED <<qvars, rvars, mvars, avars, cvars, nvars>>

\* the position of a task whose Connect has returned nil
AfterConnect(t) ==
    IF ptask[t].op = "printJob"
    THEN [ptask[t] EXCEPT !.pc = "print"]
    ELSE Idle("")

\* the position of a task whose Connect has returned err
AfterConnectError(t, err) ==
    IF ptask[t].op = "printJob"
    THEN Idle("failed to connect to printer")
    ELSE Idle(err)

\* Connect: the lookup of printer.ID in p.connections
ConnectCheck(t) ==
    /\ ptask[t].pc = "check"
    /\ IF ptask[t].printer \in DOMAIN connections
       THEN /\ ptask' = [ptask EXCEPT ![t] = AfterConnect(t)]
            /\ pmu' = "none"
       ELSE /\ ptask' = [ptask EXCEPT ![t].pc = "open"]
            /\ UNCHANGED pmu
    /\ UNCHANGED <<connections, handles, deviceState>>
    /\ UNCHANGED <<qvars, rvars, mvars, avars, cvars, nvars>>

\* Connect: the switch on printer.Type and the driver's connect call
ConnectOpen(t) ==
    /\ ptask[t].pc = "open"
    /\ LET id == ptask[t].printer IN
       IF PoolPrinter(id).Type \notin SupportedTypes
       THEN /\ ptask' = [ptask EXCEPT
                    ![t] = AfterConnectError(t, "unsupported printer type")]
            /\ pmu' = "none"
            /\ UNCHANGED handles
       ELSE \E opened \in OpenOutcomes(id) :
            IF opened
            THEN /\ handles' = Append(handles,
                        [id |-> id, closed |-> FALSE, failed |-> FALSE,
                         mu |-> "none"])
                 /\ ptask' = [ptask EXCEPT ![t].pc = "install",
                                           ![t].conn = Len(handles) + 1]
                 /\ UNCHANGED pmu
            ELSE /\ ptask' = [ptask EXCEPT
                        ![t] = AfterConnectError(t, "failed to connect")]
                 /\ pmu' = "none"
                 /\ UNCHANGED handles
    /\ UNCHANGED <<connections, deviceState>>
    /\ UNCHANGED <<qvars, rvars, mvars, avars, cvars, nvars>>

\* Connect: p.connections[printer.ID] = conn, return nil
ConnectInstall(t) ==
    /\ ptask[t].pc = "install"
    /\ connections' =
          [i \in DOMAIN connections \cup {ptask[t].printer} |->
              IF i = ptask[t].printer THEN ptask[t].conn ELSE connections[i]]
    /\ ptask' = [ptask EXCEPT ![t] = AfterConnect(t)]
    /\ pmu' = "none"
    /\ UNCHANGED <<handles, deviceState>>
    /\ UNCHANGED <<qvars, rvars, mvars, avars, cvars, nvars>>

\* pool.Print: the lookup of the connection under p.mu.RLock
PoolPrint(t) ==
    /\ ptask[t].pc = "print"
    /\ pmu = "none"
    /\ ptask' = [ptask EXCEPT
            ![t] = IF ptask[t].printer \in DOMAIN connections
                   THEN [ptask[t] EXCEPT
                            !.pc = "write",
                            !.conn = connections[ptask[t].printer]]
                   ELSE Idle("print failed")]
    /\ UNCHANGED <<connections, handles, pmu, deviceState>>
    /\ UNCHANGED <<qvars, rvars, mvars, avars, cvars, nvars>>

\* conn.Write without c.mu.Lock(): the write starts whoever holds c.mu
ConnWriteUnguarded(t) ==
    /\ ptask[t].pc = "write"
    /\ handles' = [handles EXCEPT ![ptask[t].conn].mu = t]
    /\ ptask' = [ptask EXCEPT ![t].pc = "writing"]
    /\ UNCHANGED <<connections, pmu, deviceState>>
    /\ UNCHANGED <<qvars, rvars, mvars, avars, cvars, nvars>>

\* conn.Print(img) = conn.Write(data): c.mu.Lock(), and the device is handed
\* the first bytes of data
ConnWrite(t) ==
    /\ ptask[t].pc = "write"
    /\ handles[ptask[t].conn].mu = "none"
    /\ handles' = [handles EXCEPT ![ptask[t].conn].mu = t]
    /\ ptask' = [ptask EXCEPT ![t].pc = "writing"]
    /\ UNCHANGED <<connections, pmu, deviceState>>
    /\ UNCHANGED <<qvars, rvars, mvars, avars, cvars, nvars>>

\* the write of conn.Print returns, which can take any time, and c.mu is
\* unlocked; the write fails on a connection that was closed, that has
\* failed before, or whose device is away
ConnPrint(t) ==
    /\ ptask[t].pc = "writing"
    /\ LET h == ptask[t].conn
           ok == /\ ~handles[h].closed
                 /\ ~handles[h].failed
                 /\ deviceState[handles[h].id] = "reachable"
       IN /\ handles' = [handles EXCEPT ![h].failed = @ \/ ~ok,
                                        ![h].mu = "none"]
          /\ ptask' = [ptask EXCEPT
                  ![t] = Idle(IF ok THEN "" ELSE "print failed")]
    /\ UNCHANGED <<connections, pmu, deviceState>>
    /\ UNCHANGED <<qvars, rvars, mvars, avars, cvars, nvars>>

\* pool.Disconnect(printerID): the caller has taken p.mu.Lock()
Disconnect(t, id) ==
    /\ ptask[t].pc = "idle"
    /\ pmu = "none"
    /\ pmu' = t
    /\ ptask' = [ptask EXCEPT
            ![t] = [pc |-> "close", op |-> "disconnect", printer |-> id,
                    conn |-> 0, err |-> ""]]
    /\ UNCHANGED <<connections, handles, deviceState>>
    /\ UNCHANGED <<qvars, rvars, mvars, avars, cvars, nvars>>

\* pool.DisconnectAll(), called by main at shutdown while the worker runs:
\* the caller has taken p.mu.Lock()
DisconnectAll(t) ==
    /\ ptask[t].pc = "idle"
    /\ pmu = "none"
    /\ pmu' = t
    /\ ptask' = [ptask EXCEPT
            ![t] = [pc |-> "close", op |-> "disconnectAll", printer |-> "",
                    conn |-> 0, err |-> ""]]
    /\ UNCHANGED <<connections, handles, deviceState>>
    /\ UNCHANGED <<qvars, rvars, mvars, avars, cvars, nvars>>

\* the entries a Disconnect or DisconnectAll call still has to close
ToClose(t) ==
    IF ptask[t].op = "disconnect"
    THEN {ptask[t].printer} \cap DOMAIN connections
    ELSE DOMAIN connections

\* Disconnect / DisconnectAll under p.mu: conn.Close() takes c.mu, closes
\* the connection and the entry is deleted; with nothing left to close the
\* call returns and p.mu is unlocked
DisconnectClose(t) ==
    /\ ptask[t].pc = "close"
    /\ IF ToClose(t) = {}
       THEN /\ ptask' = [ptask EXCEPT ![t] = Idle("")]
            /\ pmu' = "none"
            /\ UNCHANGED <<connections, handles>>
       ELSE \E id \in ToClose(t) :
            /\ handles[connections[id]].mu = "none"
            /\ handles' = [handles EXCEPT ![connections[id]].closed = TRUE]
            /\ connections' = [i \in DOMAIN connections \ {id} |-> connections[i]]
            /\ UNCHANGED <<ptask, pmu>>
    /\ UNCHANGED deviceState
    /\ UNCHANGED <<qvars, rvars, mvars, avars, cvars, nvars>>

\* the device of printer id is unplugged or switched off, and comes back
DeviceAway(id) ==
    /\ deviceState[id] = "reachable"
    /\ deviceState' = [deviceState EXCEPT ![id] = "away"]
    /\ UNCHANGED <<connections, handles, pmu, ptask>>
    /\ UNCHANGED <<qvars, rvars, mvars, avars, cvars, nvars>>

DeviceBack(id) ==
    /\ deviceState[id] = "away"
    /\ deviceState' = [deviceState EXCEPT ![id] = "reachable"]
    /\ UNCHANGED <<connections, handles, pmu, ptask>>
    /\ UNCHANGED <<qvars, rvars, mvars, avars, cvars, nvars>>

PoolNext ==
    \/ \E t \in Tasks, p \in PoolPrinters : ConnectCall(t, p.ID)
    \/ \E t \in Tasks, p \in PoolPrinters : PrintJobCall(t, p.ID)
    \/ \E t \in Tasks : IsConnected(t)
    \/ \E t \in Tasks : ConnectLock(t)
    \/ \E t \in Tasks : ConnectCheck(t)
    \/ \E t \in Tasks : ConnectOpen(t)
    \/ \E t \in Tasks : ConnectInstall(t)
    \/ \E t \in Tasks : PoolPrint(t)
    \/ \E t \in Tasks : ConnWrite(t)
    \/ \E t \in Tasks : ConnPrint(t)
    \/ \E t \in Tasks, p \in PoolPrinters : Disconnect(t, p.ID)
    \/ \E t \in Tasks : DisconnectAll(t)
    \/ \E t \in Tasks : DisconnectClose(t)
    \/ \E p \in PoolPrinters : DeviceAway(p.ID)
    \/ \E p \in PoolPrinters : DeviceBack(p.ID)

PoolSpec == RegInit /\ [][PoolNext]_vars

\* ------------------------------------------- accesses to shared state
\* the goroutines of the server: main, the network sweep, the queue worker,
\* the Monitor and two request handlers
Goroutines == {"main", "sweep", "worker", "monitor", "h1", "h2"}

Mutexes == {"m.mu", "q.mu", "p.mu", "r.mu"}

\* one step of a goroutine. lock / unlock of mutex x open and close a
\* critical section of several steps; go launches goroutine x; read and
\* write access location x, load reads the map printers and keeps the
\* record found, renew writes the map printers with a record allocated by
\* this call. An access with mu set is a whole critical section of its own:
\* Lock or RLock of mu, the access, the unlock.
Ins(op, x, mu) == [op |-> op, x |-> x, mu |-> mu]

\* Registry.GetPrinterID / SetPrinterName: the map under r.mu
RegistryWriteProg == <<Ins("write", "registry", "r.mu")>>

\* Manager.GetPrinter
GetPrinterProg == <<Ins("load", "printers", "m.mu")>>

\* Manager.DetectPrinters with detectNetwork launching the sweep
DetectPrintersProg ==
    <<Ins("lock", "m.mu", "")>> \o RegistryWriteProg \o
    <<Ins("go", "sweep", ""), Ins("renew", "printers", ""),
      Ins("unlock", "m.mu", "")>>

\* cmd/server/main.go: detection, the queue, the callbacks, the Monitor and
\* the HTTP server, in this order
MainProg ==
    DetectPrintersProg \o
    <<Ins("go", "worker", ""),
      Ins("write", "onPrinterAdded", ""),
      Ins("write", "onPrinterRemoved", ""),
      Ins("go", "monitor", ""),
      Ins("go", "h1", ""),
      Ins("go", "h2", "")>>

\* scanNetworkInBackground for an address that answers
SweepHitProg ==
    RegistryWriteProg \o
    <<Ins("read", "printers", "m.mu"),
      Ins("renew", "printers", "m.mu"),
      Ins("read", "onPrinterAdded", "")>>

\* Monitor.checkChanges
CheckChangesProg ==
    DetectPrintersProg \o
    <<Ins("read", "onPrinterAdded", ""), Ins("read", "onPrinterRemoved", "")>>

\* PrintQueue.Enqueue, and the two locked parts of processNextJob
EnqueueProg == <<Ins("write", "jobs", "q.mu")>>

\* PrintQueue.GetJob
GetJobProg == <<Ins("read", "jobs", "q.mu")>>

\* PrintQueue.processNextJob with printJob for a printer not yet connected
ProcessNextJobProg ==
    EnqueueProg \o
    <<Ins("read", "connections", "p.mu")>> \o
    GetPrinterProg \o
    <<Ins("write", "connections", "p.mu"),
      Ins("read", "connections", "p.mu")>> \o
    EnqueueProg

\* Executor.handlePrint: GetPrinter, Enqueue, GetPrinter and p.Name
HandlePrintProg ==
    GetPrinterProg \o EnqueueProg \o GetPrinterProg \o
    <<Ins("read", "Printer.Name", "")>>

\* Manager.SetPrinterName
SetPrinterNameProg ==
    RegistryWriteProg \o
    <<Ins("lock", "m.mu", ""), Ins("load", "printers", ""),
      Ins("write", "Printer.Name", ""), Ins("unlock", "m.mu", "")>>

\* Manager.AddNetworkPrinter
AddNetworkPrinterProg ==
    <<Ins("lock", "m.mu", "")>> \o RegistryWriteProg \o
    <<Ins("renew", "printers", ""), Ins("read", "onPrinterAdded", ""),
      Ins("unlock", "m.mu", "")>>

Prog(name) ==
    CASE name = "main" -> MainProg
      [] name = "SweepHit" -> SweepHitProg
      [] name = "checkChanges" -> CheckChangesProg
      [] name = "processNextJob" -> ProcessNextJobProg
      [] name = "handlePrint" -> HandlePrintProg
      [] name = "GetJob" -> GetJobProg
      [] name = "SetPrinterName" -> SetPrinterNameProg
      [] name = "AddNetworkPrinter" -> AddNetworkPrinterProg

\* what each goroutine runs
ProgsOf(g) ==
    CASE g = "main" -> {}
      [] g = "sweep" -> {"SweepHit"}
      [] g = "worker" -> {"processNextJob"}
      [] g = "monitor" -> {"checkChanges"}
      [] g \in {"h1", "h2"} ->
            {"handlePrint", "GetJob", "SetPrinterName", "AddNetworkPrinter"}

\* the number of Printer records the instructions from..Len of name allocate
Allocates(name, from) ==
    Cardinality({i \in from..Len(Prog(name)) : Prog(name)[i].op = "renew"})

\* the records still to be allocated by the calls in progress
RECURSIVE RecordsDue(_)
RecordsDue(G) ==
    IF G = {} THEN 0
    ELSE LET g == CHOOSE x \in G : TRUE IN
         (IF apc[g].i = 0 THEN 0 ELSE Allocates(apc[g].prog, apc[g].i))
         + RecordsDue(G \ {g})

\* the instruction goroutine g is at
At(g) == Prog(apc[g].prog)[apc[g].i]

Running(g) == apc[g].started /\ apc[g].i > 0

\* g has the mutex of its instruction, or needs none
Unblocked(g) == IF At(g).mu = "" THEN TRUE ELSE amu[At(g).mu] = "none"

\* g after its instruction: at the next one, or out of its call
Advance(g) ==
    IF apc[g].i = Len(Prog(apc[g].prog))
    THEN [apc[g] EXCEPT !.prog = "", !.i = 0]
    ELSE [apc[g] EXCEPT !.i = @ + 1]

\* a goroutine starts one of its calls
AccCall(g, name) ==
    /\ apc[g].started
    /\ apc[g].i = 0
    /\ name \in ProgsOf(g)
    /\ curRecord + RecordsDue(Goroutines) + Allocates(name, 1) <= MaxRecords
    /\ apc' = [apc EXCEPT ![g].prog = name, ![g].i = 1]
    /\ UNCHANGED <<amu, curRecord>>
    /\ UNCHANGED <<qvars, rvars, mvars, pvars, cvars, nvars>>

AccLock(g) ==
    /\ Running(g)
    /\ At(g).op = "lock"
    /\ amu[At(g).x] = "none"
    /\ amu' = [amu EXCEPT ![At(g).x] = g]
    /\ apc' = [apc EXCEPT ![g] = Advance(g)]
    /\ UNCHANGED curRecord
    /\ UNCHANGED <<qvars, rvars, mvars, pvars, cvars, nvars>>

AccUnlock(g) ==
    /\ Running(g)
    /\ At(g).op = "unlock"
    /\ amu' = [amu EXCEPT ![At(g).x] = "none"]
    /\ apc' = [apc EXCEPT ![g] = Advance(g)]
    /\ UNCHANGED curRecord
    /\ UNCHANGED <<qvars, rvars, mvars, pvars, cvars, nvars>>

\* the go statement: the goroutine exists from here on
AccGo(g) ==
    /\ Running(g)
    /\ At(g).op = "go"
    /\ apc' = [apc EXCEPT ![g] = Advance(g), ![At(g).x].started = TRUE]
    /\ UNCHANGED <<amu, curRecord>>
    /\ UNCHANGED <<qvars, rvars, mvars, pvars, cvars, nvars>>

\* a read; reading the map printers keeps the record found
AccRead(g) ==
    /\ Running(g)
    /\ At(g).op \in {"read", "load"}
    /\ Unblocked(g)
    /\ apc' = [apc EXCEPT
            ![g] = IF At(g).op = "load"
                   THEN [Advance(g) EXCEPT !.rec = curRecord]
                   ELSE Advance(g)]
    /\ UNCHANGED <<amu, curRecord>>
    /\ UNCHANGED <<qvars, rvars, mvars, pvars, cvars, nvars>>

\* a write; writing the map printers with a new record replaces the old one
AccWrite(g) ==
    /\ Running(g)
    /\ At(g).op \in {"write", "renew"}
    /\ Unblocked(g)
    /\ curRecord' = IF At(g).op = "renew" THEN curRecord + 1 ELSE curRecord
    /\ apc' = [apc EXCEPT ![g] = Advance(g)]
    /\ UNCHANGED amu
    /\ UNCHANGED <<qvars, rvars, mvars, pvars, cvars, nvars>>

AccNext ==
    \/ \E g \in Goroutines : \E name \in ProgsOf(g) : AccCall(g, name)
    \/ \E g \in Goroutines : AccLock(g)
    \/ \E g \in Goroutines : AccUnlock(g)
    \/ \E g \in Goroutines : AccGo(g)
    \/ \E g \in Goroutines : AccRead(g)
    \/ \E g \in Goroutines : AccWrite(g)

AccSpec == RegInit /\ [][AccNext]_vars

\* ------------------------------------------------------ command executor
\* --repeat too large (max 100)
RepeatLimit == 100

\* a word of a command string: the string head followed by the characters
\* tail, head being the part the handlers compare as a whole
Tok(head, tail) == [head |-> head, tail |-> tail]

Word(w) == Tok(w, <<>>)

\* a word that is all characters, as a number is
Chars(s) == Tok("", s)

\* the characters of a word, head counting as one that is no digit
Str(tok) == IF tok.head = "" THEN tok.tail ELSE <<tok.head>> \o tok.tail

Digits == {"0", "1", "2", "3", "4", "5", "6", "7", "8", "9"}

DigitVal(c) ==
    CASE c = "0" -> 0 [] c = "1" -> 1 [] c = "2" -> 2 [] c = "3" -> 3
      [] c = "4" -> 4 [] c = "5" -> 5 [] c = "6" -> 6 [] c = "7" -> 7
      [] c = "8" -> 8 [] c = "9" -> 9

RECURSIVE DecVal(_)
DecVal(d) ==
    IF d = <<>> THEN 0
    ELSE DecVal(SubSeq(d, 1, Len(d) - 1)) * 10 + DigitVal(d[Len(d)])

\* strconv.Atoi: an optional sign and at least one decimal digit
Atoi(s) ==
    IF s = <<>> THEN [ok |-> FALSE, val |-> 0]
    ELSE LET digits == IF s[1] \in {"+", "-"} THEN Tail(s) ELSE s IN
         IF digits = <<>> \/ \E i \in 1..Len(digits) : digits[i] \notin Digits
         THEN [ok |-> FALSE, val |-> 0]
         ELSE [ok |-> TRUE,
               val |-> IF s[1] = "-" THEN 0 - DecVal(digits) ELSE DecVal(digits)]

\* parseCommand: the words of the command string between blanks
parseCommand(cmdStr) == SelectSeq(cmdStr, LAMBDA w : w # Word(""))

Failed(err) == [ok |-> FALSE, repeat |-> 0, err |-> err]

\* handlePrint: the loop over args[optionsIdx:], from args[i] on
RECURSIVE ParseOptions(_, _, _)
ParseOptions(args, i, repeat) ==
    IF i > Len(args) THEN [ok |-> TRUE, repeat |-> repeat, err |-> ""]
    ELSE LET arg == args[i] IN
         IF arg = Word("--repeat")
         THEN IF i + 1 > Len(args) THEN Failed("usage: --repeat <number>")
              ELSE IF ~Atoi(Str(args[i + 1])).ok
                   THEN Failed("invalid --repeat value")
                   ELSE ParseOptions(args, i + 2, Atoi(Str(args[i + 1])).val)
         ELSE IF arg.head = "--repeat="
         THEN IF ~Atoi(arg.tail).ok THEN Failed("invalid --repeat value")
              ELSE ParseOptions(args, i + 1, Atoi(arg.tail).val)
         ELSE IF arg = Word("--var")
         THEN IF i + 1 > Len(args) THEN Failed("usage: --var key=value")
              ELSE ParseOptions(args, i + 2, repeat)
         ELSE IF arg = Word("--var-array")
         THEN IF i + 1 > Len(args) THEN Failed("usage: --var-array name=v1,v2")
              ELSE ParseOptions(args, i + 2, repeat)
         ELSE ParseOptions(args, i + 1, repeat)

\* handlePrint accepting every number given to --repeat
HandlePrintUnchecked(args, receiptOk, renderOk) ==
    IF Len(args) < 2 THEN Failed("usage: print <printer-id> <receipt-path>")
    ELSE IF Str(args[1]) \notin {<<p>> : p \in printers}
    THEN Failed("printer not found")
    ELSE IF ~receiptOk THEN Failed("failed to load receipt")
    ELSE LET opts == ParseOptions(args, 3, 1) IN
         IF ~opts.ok THEN opts
         ELSE IF ~renderOk THEN Failed("failed to render receipt")
         ELSE opts

\* handlePrint up to the loop that enqueues: the number of jobs to enqueue,
\* or the error it returns
HandlePrint(args, receiptOk, renderOk) ==
    IF Len(args) < 2 THEN Failed("usage: print <printer-id> <receipt-path>")
    ELSE IF Str(args[1]) \notin {<<p>> : p \in printers}
    THEN Failed("printer not found")
    ELSE IF ~receiptOk THEN Failed("failed to load receipt")
    ELSE LET opts == ParseOptions(args, 3, 1) IN
         IF ~opts.ok THEN opts
         ELSE IF opts.repeat < 1 THEN Failed("--repeat must be >= 1")
         ELSE IF opts.repeat > RepeatLimit
         THEN Failed("--repeat too large (max 100)")
         ELSE IF ~renderOk THEN Failed("failed to render receipt")
         ELSE opts

\* Execute: the handler the switch on parts[0] routes to
Route(command) ==
    IF command \in {"print", "printer", "job", "detect", "help"}
    THEN command ELSE "default"

\* the numbers given to --repeat
NumStrings ==
    { <<"0">>, <<"1">>, <<"2">>, <<"1", "0", "0">>, <<"1", "0", "1">>,
      <<"-", "1">>, <<"+", "2">>, <<"x">>, <<>> }

\* the options of a print command
OptionLists ==
    {<<>>, <<Word("--repeat")>>,
     <<Word("--var"), Word("--repeat"), Chars(<<"2">>)>>,
     <<Word("--repeat"), Chars(<<"0">>), Tok("--repeat=", <<"2">>)>>}
    \cup {<<Word("--repeat"), Chars(n)>> : n \in NumStrings}
    \cup {<<Tok("--repeat=", n)>> : n \in NumStrings}

\* the command strings sent to the executor
CmdStrings ==
    {<<Word("print"), Word(p), Word("receipt.json")>> \o opts :
        p \in {"p1", "p9"}, opts \in OptionLists}
    \cup {<<Word("server"), Word(sub)>> : sub \in {"status", "stop", "restart"}}
    \cup {<<>>, <<Word("")>>, <<Word("help")>>, <<Word("print")>>,
          <<Word(""), Word("print"), Word("p1"), Word(""), Word("receipt.json")>>}

NoCmd == [pc |-> "idle", printer |-> "", repeat |-> 0, n |-> 0]

\* a Result, with the command it answers, the outcomes of loading and of
\* rendering its receipt, and the length of the queue when it was called
Result(call, success, err, repeat, n) ==
    [parts |-> call.parts, receiptOk |-> call.receiptOk,
     renderOk |-> call.renderOk, base |-> call.base,
     Success |-> success, Error |-> err, repeat |-> repeat, jobIDs |-> n]

\* Executor.Execute(cmdStr) up to the first Enqueue of handlePrint, or to
\* its return; receiptOk and renderOk are the outcomes of loading and of
\* rendering the receipt
Execute(cmdStr, receiptOk, renderOk) ==
    /\ cmd.pc = "idle"
    /\ cmdCount < MaxCommands
    /\ cmdCount' = cmdCount + 1
    /\ LET parts == parseCommand(cmdStr)
           call == [parts |-> parts, receiptOk |-> receiptOk,
                    renderOk |-> renderOk, base |-> Len(jobs)]
       IN
       IF parts = <<>>
       THEN /\ result' = Result(call, FALSE, "empty command", 0, 0)
            /\ UNCHANGED cmd
       ELSE IF Route(parts[1].head) = "print" /\ parts[1].tail = <<>>
       THEN LET r == HandlePrint(Tail(parts), receiptOk, renderOk) IN
            IF r.ok
            THEN /\ cmd' = [pc |-> "enqueue", printer |-> parts[2].head,
                            repeat |-> r.repeat, n |-> 0]
                 /\ result' = Result(call, FALSE, "", 0, 0)
            ELSE /\ result' = Result(call, FALSE, r.err, 0, 0)
                 /\ UNCHANGED cmd
       ELSE IF Route(parts[1].head) = "help" /\ parts[1].tail = <<>>
       THEN /\ result' = Result(call, TRUE, "", 0, 0)
            /\ UNCHANGED cmd
       ELSE /\ result' = Result(call, FALSE, "unknown command", 0, 0)
            /\ UNCHANGED cmd
    /\ UNCHANGED <<exitTimer, jobs, nextPtr>>
    /\ UNCHANGED <<maxRetries, cancelled, now, wpc, cur, werr, printers,
                   conns, driver, hist, rvars, mvars, pvars, avars, nvars>>

\* handlePrint: one e.queue.Enqueue(printerID, img) of the loop
HandlePrintEnqueue ==
    /\ cmd.pc = "enqueue"
    /\ cmd.n < cmd.repeat
    /\ jobs' = Append(jobs, [ptr |-> nextPtr, id |-> JobId(now),
                             printer |-> cmd.printer, retries |-> 0,
                             status |-> "queued", err |-> NoError])
    /\ nextPtr' = nextPtr + 1
    /\ cmd' = [cmd EXCEPT !.n = @ + 1]
    /\ UNCHANGED <<result, cmdCount, exitTimer>>
    /\ UNCHANGED <<maxRetries, cancelled, now, wpc, cur, werr, printers,
                   conns, driver, hist, rvars, mvars, pvars, avars, nvars>>

\* handlePrint: the Result after the loop
HandlePrintReturn ==
    /\ cmd.pc = "enqueue"
    /\ cmd.n = cmd.repeat
    /\ result' = Result(result, TRUE, "", cmd.repeat, cmd.n)
    /\ cmd' = NoCmd
    /\ UNCHANGED <<cmdCount, exitTimer, jobs, nextPtr>>
    /\ UNCHANGED <<maxRetries, cancelled, now, wpc, cur, werr, printers,
                   conns, driver, hist, rvars, mvars, pvars, avars, nvars>>

CmdNext ==
    \/ \E cmdStr \in CmdStrings, receiptOk \in BOOLEAN, renderOk \in BOOLEAN :
          Execute(cmdStr, receiptOk, renderOk)
    \/ HandlePrintEnqueue
    \/ HandlePrintReturn

\* the server of cmd/server/main.go with printer p1 detected
CmdInit ==
    /\ InitQueue
    /\ InitRegistry
    /\ InitManager
    /\ InitOther
    /\ disk = "sound"
    /\ maxRetries = 3
    /\ printers = PrinterIds
    /\ driver = Unscripted

CmdSpec == CmdInit /\ [][CmdNext]_vars

\* ------------------------------------------- addresses the sweep probes
\* the number of hosts scanNetworkInBackground probes per interface address
ScanHosts == 100

\* the addresses (in CIDR form) of the up, non-loopback IPv4 interfaces
Interfaces ==
    { [ip |-> ip, prefix |-> n] :
        ip \in { <<192, 168, 1, 10>>, <<192, 168, 1, 201>>, <<10, 0, 5, 130>> },
        n \in 16..32 }

\* the number of mask bits that fall into octet k (1..4) of a prefix
MaskBits(prefix, k) ==
    IF prefix >= 8 * k THEN 8
    ELSE IF prefix <= 8 * (k - 1) THEN 0
    ELSE prefix - 8 * (k - 1)

\* ip.Mask(mask): every octet and-ed with the octet of the mask
Mask(ip, prefix) ==
    [k \in 1..4 |-> ip[k] - (ip[k] % (2 ^ (8 - MaskBits(prefix, k))))]

\* testIP: a copy of ip4 with testIP[3] = byte(int(ip4[3]) + i)
TestIP(ip4, i) == [ip4 EXCEPT ![4] = (ip4[4] + i) % 256]

\* the sweep reaches an interface address: ParseCIDR, To4, ip.Mask(mask)
SweepAddr(a) ==
    /\ probe.i \in {0, ScanHosts}
    /\ probe' = [ip |-> a.ip, prefix |-> a.prefix, ip4 |-> Mask(a.ip, a.prefix),
                 i |-> 0, testIP |-> Mask(a.ip, a.prefix), dialled |-> FALSE]
    /\ UNCHANGED <<qvars, rvars, mvars, pvars, avars, cvars, naming, announced>>

\* one round of the loop over i: testIP is computed and, unless it equals
\* ipNet.IP, its ports are dialled
SweepProbe ==
    /\ probe.prefix >= 0
    /\ probe.i < ScanHosts
    /\ probe' = [probe EXCEPT
            !.i = probe.i + 1,
            !.testIP = TestIP(probe.ip4, probe.i + 1),
            !.dialled = TestIP(probe.ip4, probe.i + 1) # Mask(probe.ip, probe.prefix)]
    /\ UNCHANGED <<qvars, rvars, mvars, pvars, avars, cvars, naming, announced>>

AddrNext ==
    \/ \E a \in Interfaces : SweepAddr(a)
    \/ SweepProbe

AddrSpec == RegInit /\ [][AddrNext]_vars

\* ----------------------------------------------- overlapping renames
\* the goroutines (API handlers, the TUI) that call Manager.SetPrinterName
Callers == {"c1", "c2"}

\* Manager.SetPrinterName, first half: m.registry.SetPrinterName(id, name),
\* under the registry's lock only
SetNameRegistry(c, id, name) ==
    /\ RegistryOpen
    /\ naming[c].pc = "idle"
    /\ IF KeysOfId(regData, id) # {}
       THEN /\ regData' = [k \in DOMAIN regData |->
                    IF regData[k].ID = id
                    THEN [regData[k] EXCEPT !.Name = name] ELSE regData[k]]
            /\ regFile' \in SaveResults(regData')
            /\ regRet' = [op |-> "set", info |-> NoInfo, id |-> id,
                          name |-> name, ok |-> TRUE,
                          saved |-> SaveOutcome(regFile', regData')]
            /\ regUnsaved' = (regUnsaved \/ regFile' # Whole(regData'))
            /\ naming' = [naming EXCEPT
                    ![c] = [pc |-> "live", id |-> id, name |-> name]]
       ELSE /\ regRet' = [op |-> "set", info |-> NoInfo, id |-> id,
                          name |-> name, ok |-> FALSE, saved |-> "none"]
            /\ UNCHANGED <<regData, regFile, regUnsaved, naming>>
    /\ UNCHANGED <<disk, nextUuid, regIssued, regLive, qvars, mvars, pvars,
                   avars, cvars, probe, announced>>

\* Manager.SetPrinterName, second half: under m.mu, printer.Name = name when
\* the live map has a record for id; the call returns
SetNameLive(c) ==
    /\ naming[c].pc = "live"
    /\ live' = [p \in DOMAIN live |->
            IF p = naming[c].id
            THEN [live[p] EXCEPT !.Name = naming[c].name] ELSE live[p]]
    /\ naming' = [naming EXCEPT ![c] = [pc |-> "idle", id |-> NoId, name |-> ""]]
    /\ UNCHANGED <<qvars, rvars, detRet, addRet, networkScanStarted,
                   scanLaunches, spc, sloc, mpc, mstopped, previousPrinters,
                   ticks, evlog, pvars, avars, cvars, probe, announced>>

NameNext ==
    \/ \E S \in SUBSET Devices : ManagerDetectPrinters(S)
    \/ AddNetworkPrinter("192.168.1.100", 9100, "Kiosk")
    \/ \E c \in Callers, id \in Uuids, name \in Names : SetNameRegistry(c, id, name)
    \/ \E c \in Callers : SetNameLive(c)

\* a server whose frontends rename printers while others rename and detect
NameSpec == RegInit /\ [][NameNext]_vars

\* ------------------------------------------------------------- claims
JobIdx == 1..Len(jobs)

Terminal == {"completed", "failed"}

\* the job allocated as p is in the queue and not yet completed or failed
Pending(p) ==
    \E i \in JobIdx : jobs[i].ptr = p /\ jobs[i].status \notin Terminal

\* C1: while the queue is not stopped every enqueued job eventually is
\* completed or failed, and a job's retries never decreases and grows only
\* by one, when a failed attempt is resolved.
QueueLiveness ==
    /\ \A p \in Ptrs : Pending(p) ~> (cancelled \/ ~Pending(p))
    /\ [][\A i \in JobIdx : \A k \in 1..Len(jobs') :
            jobs'[k].ptr = jobs[i].ptr =>
                \/ jobs'[k].retries = jobs[i].retries
                \/ /\ jobs'[k].retries = jobs[i].retries + 1
                   /\ wpc = "resolve"
                   /\ werr # NoError]_vars

\* C2: every job has retries <= max_retries, and a job whose retries has
\* reached max_retries is failed.
RetriesBounded ==
    \A i \in JobIdx :
        /\ jobs[i].retries <= maxRetries
        /\ jobs[i].retries >= maxRetries => jobs[i].status = "failed"

\* C3: a completed or failed job keeps its status, retries and error in
\* every step; it can only disappear, and only a completed job does, by
\* ClearCompleted.
TerminalAbsorbing ==
    [][\A i \in JobIdx :
          jobs[i].status \in Terminal =>
              \/ \E k \in 1..Len(jobs') : jobs'[k] = jobs[i]
              \/ /\ jobs[i].status = "completed"
                 /\ jobs' = SelectSeq(jobs, LAMBDA j : j.status # "completed")
                 /\ \A k \in 1..Len(jobs') : jobs'[k].ptr # jobs[i].ptr]_vars

\* a failed job and a later job with the same id whose attempt was resolved
WitnessTerminalAbsorbing ==
    \E i, k \in JobIdx :
        /\ i < k
        /\ jobs[i].status = "failed"
        /\ jobs[k].id = jobs[i].id
        /\ hist[jobs[k].ptr].attempts > 0
        /\ wpc = "idle"

\* C4: at most one job has status printing.
AtMostOnePrinting ==
    Cardinality({i \in JobIdx : jobs[i].status = "printing"}) <= 1

\* C5: a promotion causes at most one Pool.Print, a job is never written
\* again after a successful write, a completed job has had exactly one
\* successful write, and a job has had at most retries + 1 writes.
OneWritePerAttempt ==
    /\ [](\A p \in Ptrs : /\ hist[p].writes <= hist[p].attempts
                          /\ hist[p].okWrites <= 1)
    /\ [](\A i \in JobIdx :
            /\ jobs[i].status = "completed" => hist[jobs[i].ptr].okWrites = 1
            /\ hist[jobs[i].ptr].writes <= jobs[i].retries + 1)
    /\ [][\A p \in Ptrs :
            hist[p].okWrites > 0 => hist'[p].writes = hist[p].writes]_vars

\* C6: the job promoted to printing is the first queued job of the slice,
\* and a step that neither appends nor removes keeps the order of the jobs.
FifoPromotion ==
    [][/\ \A i \in JobIdx :
            (/\ Len(jobs') = Len(jobs)
             /\ jobs[i].status = "queued"
             /\ jobs'[i].status = "printing")
            => \A k \in 1..(i - 1) : jobs[k].status # "queued"
       /\ Len(jobs') = Len(jobs) =>
            \A i \in JobIdx : jobs'[i].ptr = jobs[i].ptr]_vars

\* a requeued job is printing again while a later job is still queued
WitnessFifoPromotion ==
    \E i, k \in JobIdx :
        /\ i < k
        /\ jobs[i].status = "printing"
        /\ jobs[i].retries > 0
        /\ jobs[k].status = "queued"

\* C7: any two jobs Enqueue has returned have distinct ids.
UniqueJobIds ==
    \A p, q \in 1..(nextPtr - 1) : p # q => hist[p].id # hist[q].id

\* C8: one job, max_retries m >= 1, a driver failing its first k writes:
\* the job completes with retries = k after k + 1 attempts when k < m, it
\* fails with retries = m and an error after m attempts when k >= m, and
\* no further attempt is ever made.
RetryOutcome ==
    /\ hist[1].attempts <=
            IF driver.failFirst < maxRetries THEN driver.failFirst + 1 ELSE maxRetries
    /\ \A i \in JobIdx :
        /\ jobs[i].status = "completed" =>
                /\ driver.failFirst < maxRetries
                /\ jobs[i].retries = driver.failFirst
                /\ hist[jobs[i].ptr].attempts = driver.failFirst + 1
        /\ jobs[i].status = "failed" =>
                /\ driver.failFirst >= maxRetries
                /\ jobs[i].retries = maxRetries
                /\ jobs[i].err # NoError
                /\ hist[jobs[i].ptr].attempts = maxRetries

\* max_retries = 3 and the first two writes fail: the job has completed at
\* its third attempt and the worker is back at its select
WitnessRetryOutcome ==
    /\ maxRetries = 3
    /\ driver.failFirst = 2
    /\ \E i \in JobIdx :
        /\ jobs[i].status = "completed"
        /\ jobs[i].retries = 2
        /\ hist[jobs[i].ptr].writes = 3
    /\ wpc = "idle"

ConnectionErrors == {"printer not found", "failed to connect to printer"}

\* C9: an attempt that ends in a connection failure has issued no write,
\* adds exactly one to the retries of the promoted job and records the
\* error; a job failed without any write has had max_retries attempts.
ConnectionFailureCounts ==
    [][(wpc = "resolve" /\ werr \in ConnectionErrors /\ wpc' = "idle") =>
          \E i \in JobIdx :
              /\ jobs[i].ptr = cur.ptr
              /\ jobs'[i].ptr = cur.ptr
              /\ jobs'[i].retries = jobs[i].retries + 1
              /\ jobs'[i].err = werr
              /\ hist'[cur.ptr].writes = hist[cur.ptr].writes
              /\ (jobs'[i].status = "failed" /\ hist[cur.ptr].writes = 0)
                    => hist[cur.ptr].attempts = maxRetries]_vars

\* C10 (as claimed): all GetPrinterID calls with infos of one identity key
\* return the same id.
IdentityStable ==
    \A k \in Keys : Cardinality(regIssued[k]) <= 1

\* C10 (amended): the GetPrinterID calls with infos of one identity key
\* between two removals of its entry return the same id, the id of the one
\* entry stored under that key, and no other entry has this id.
IdentityStableUntilRemoved ==
    \A k \in Keys :
        /\ Cardinality(regLive[k]) <= 1
        /\ regLive[k] # {} =>
                /\ k \in DOMAIN regData
                /\ regLive[k] = {regData[k].ID}
                /\ KeysOfId(regData, regData[k].ID) = {k}

\* the last call returned the id of an entry that an earlier call with
\* another PrinterInfo of the same identity key had created
WitnessIdentityStable ==
    /\ regRet.op = "get"
    /\ GenerateIdentityKey(regRet.info) \in DOMAIN regData
    /\ regData[GenerateIdentityKey(regRet.info)].Description
            # regRet.info.Description
    /\ regRet.id = regData[GenerateIdentityKey(regRet.info)].ID

\* C11: when every save of a Registry has succeeded, a Registry constructed
\* afterwards from the same file is constructed without error and holds the
\* same identity key -> entry map, so the ids and names are the ones from
\* before the restart.
PersistenceRoundTrip ==
    [][(RegistryOpen /\ ~regUnsaved /\ regRet'.op = "new") =>
            /\ regRet'.ok
            /\ regData' = regData]_vars

\* a Registry just constructed from the file holds an entry with a custom name
WitnessPersistenceRoundTrip ==
    /\ regRet.op = "new"
    /\ regRet.ok
    /\ \E k \in DOMAIN regData :
        /\ regData[k].Name # ""
        /\ regData[k].ID \in Uuids
        /\ regData[k].IdentityKey = k

\* C12: the registry file never holds a truncated or partial document.
FileAlwaysComplete ==
    regFile.state # "partial"

\* C13: constructing a Registry never fails, whatever the file holds.
LoadNeverFails ==
    regRet.op = "new" => regRet.ok

\* C14: a call whose save failed has returned its normal result and its
\* change is in the in-memory map; after a call whose save succeeded the
\* file decodes to the whole in-memory map, earlier unsaved changes included.
PersistenceFailureNotFatal ==
    /\ regRet.saved = "failed" =>
        /\ regRet.ok
        /\ regRet.op = "get" =>
            /\ GenerateIdentityKey(regRet.info) \in DOMAIN regData
            /\ regData[GenerateIdentityKey(regRet.info)].ID = regRet.id
        /\ regRet.op = "set" =>
            \E k \in DOMAIN regData :
                regData[k].ID = regRet.id /\ regData[k].Name = regRet.name
        /\ regRet.op = "remove" => KeysOfId(regData, regRet.id) = {}
    /\ regRet.saved = "ok" =>
        /\ regFile.state = "whole"
        /\ Unmarshal(regFile.doc) = regData

\* a save has succeeded after an earlier save of this Registry had failed,
\* and the file holds both entries
WitnessPersistenceFailureNotFatal ==
    /\ regUnsaved
    /\ regRet.saved = "ok"
    /\ Cardinality(DOMAIN regData) = 2
    /\ DOMAIN regFile.doc = DOMAIN regData

\* the records of the live map m for the address the sweep dials
AtSweepAddress(m) ==
    {id \in DOMAIN m : m[id].Host = SweepInfo.Host /\ m[id].Port = SweepInfo.Port}

\* C15: a sweep hit on host:port after AddNetworkPrinter(host, port, ...)
\* has returned N resolves to N and creates no registry entry and changes
\* no name; when the sweep then puts its printer into the live map there
\* is still one record for host:port, the registry is as before, and, no
\* other registry call having come since the hit, the record has the name
\* the registry stores for N.
SweepMerge ==
    [][/\ (spc = "dial" /\ spc' = "check" /\ addRet # NoId) =>
            /\ sloc'.printer.ID = addRet
            /\ DOMAIN regData' = DOMAIN regData
            /\ \A k \in DOMAIN regData : regData'[k].Name = regData[k].Name
       /\ (spc = "insert" /\ spc' = "done" /\ sloc.afterAdd) =>
            /\ Cardinality(AtSweepAddress(live')) <= 1
            /\ regData' = regData
            /\ (regRet.op = "get" /\ regRet.info = SweepInfo) =>
                    live'[sloc.printer.ID].Name =
                        GetPrinterName(regData, sloc.printer.ID)]_vars

\* the sweep has met the address of a printer that was added by hand and
\* named, found its record in the live map and returned
WitnessSweepMerge ==
    /\ spc = "done"
    /\ sloc.afterAdd
    /\ sloc.printer.ID = addRet
    /\ addRet \in DOMAIN live
    /\ live[addRet].Description = "Kiosk"
    /\ live[addRet].Name = "Kitchen"
    /\ Cardinality(DOMAIN regData) = 1

\* C16: the list DetectPrinters returns holds at most one printer per id.
DetectDeduplicated ==
    \A i, k \in 1..Len(detRet) : i # k => detRet[i].ID # detRet[k].ID

\* C20: the sweep has been launched at most once.
SweepOnce ==
    scanLaunches <= 1

\* the sweep has put its printer into the live map and returned, and a later
\* DetectPrinters has replaced the map by one without it
WitnessSweepOnce ==
    /\ spc = "done"
    /\ sloc.printer.Description = SweepInfo.Description
    /\ sloc.printer.ID \notin DOMAIN live
    /\ scanLaunches = 1

\* C17: a tick with previous snapshot P whose DetectPrinters returns the
\* ids C invokes on_added once for each id of C \ P, on_removed once for
\* each id of P \ C and nothing for the other ids, and leaves C as the
\* snapshot of the next tick; P is empty at the first tick.
MonitorDiff ==
    [][(mpc = "check" /\ mpc' = "select") =>
          /\ ticks = 1 => previousPrinters = {}
          /\ previousPrinters' = CurrentMap(detRet')
          /\ \A id \in DOMAIN evlog' :
                evlog'[id] =
                    (IF id \in DOMAIN evlog THEN evlog[id] ELSE <<>>)
                    \o (IF id \in CurrentMap(detRet') \ previousPrinters
                        THEN <<"added">> ELSE <<>>)
                    \o (IF id \in previousPrinters \ CurrentMap(detRet')
                        THEN <<"removed">> ELSE <<>>)
          /\ previousPrinters \cup CurrentMap(detRet') \subseteq DOMAIN evlog']_vars

\* the second tick has found one printer gone and the other still there,
\* which two devices reported
WitnessMonitorDiff ==
    /\ ticks = 2
    /\ mpc = "select"
    /\ Len(detRet) = 2
    /\ \E a, b \in DOMAIN evlog :
        /\ previousPrinters = {a}
        /\ evlog[a] = <<"added">>
        /\ evlog[b] = <<"added", "removed">>

\* C18: the callbacks of the Monitor for one id alternate on_added,
\* on_removed, on_added, ..., the first being on_added.
EventsAlternate ==
    \A id \in DOMAIN evlog :
        \A i \in 1..Len(evlog[id]) :
            evlog[id][i] = IF i % 2 = 1 THEN "added" ELSE "removed"

\* a printer has come, gone and come again
WitnessEventsAlternate ==
    \E id \in DOMAIN evlog : evlog[id] = <<"added", "removed", "added">>

\* C19: once Stop has returned the Monitor runs no DetectPrinters, starts
\* none and invokes no callback.
StopWaits ==
    [][mstopped => (mpc # "check" /\ mpc' # "check" /\ evlog' = evlog)]_vars

\* the task, if any, that has opened a connection for id and not installed it
Installing(id) ==
    {ptask[t].conn : t \in {u \in Tasks : /\ ptask[u].pc = "install"
                                          /\ ptask[u].printer = id}}

\* C21: the pool holds at most one connection per printer id. At most one
\* driver connection is open for an id, and it is the one in the map or the
\* one its opener is about to install; Connect on an id that has an entry
\* opens nothing and leaves the map as it is; a failed open or an
\* unsupported type installs nothing.
OneConnectionPerId ==
    /\ [](\A p \in PoolPrinters :
            /\ Cardinality(OpenHandles(p.ID)) <= 1
            /\ OpenHandles(p.ID) =
                  (IF p.ID \in DOMAIN connections
                   THEN {connections[p.ID]} ELSE {}) \cup Installing(p.ID)
            /\ p.Type \notin SupportedTypes => p.ID \notin DOMAIN connections)
    /\ [][\A t \in Tasks :
            /\ (/\ ptask[t].pc = "check"
                /\ ptask'[t] # ptask[t]
                /\ ptask[t].printer \in DOMAIN connections)
               => /\ Len(handles') = Len(handles)
                  /\ connections' = connections
                  /\ ptask'[t].pc \notin {"open", "install"}
            /\ (/\ ptask[t].pc = "open"
                /\ ptask'[t].pc = "idle")
               => /\ ptask'[t].err # ""
                  /\ Len(handles') = Len(handles)
                  /\ connections' = connections]_vars

\* two Connect calls for the same id are in flight: one has opened its
\* connection and holds the lock, the other waits for the lock
WitnessOneConnectionPerId ==
    /\ ptask["t1"].pc = "install"
    /\ ptask["t2"].pc = "lock"
    /\ ptask["t1"].op = "connect"
    /\ ptask["t2"].op = "connect"
    /\ ptask["t1"].printer = ptask["t2"].printer

\* C22: the pool reconnects. A print attempt that starts while the device is
\* reachable does not go on to print on a pooled connection on which a
\* write has already failed.
PoolReconnects ==
    [][\A t \in Tasks :
          (/\ ptask[t].pc = "isconn"
           /\ ptask'[t].pc = "print"
           /\ deviceState[ptask[t].printer] = "reachable")
          => ~handles[connections[ptask[t].printer]].failed]_vars

\* the location the instruction of g accesses: the name of a Printer is a
\* field of the record g holds
Location(g) ==
    IF At(g).x = "Printer.Name" THEN <<At(g).x, apc[g].rec>>
    ELSE IF At(g).op \in {"load", "renew"} THEN <<"printers", 0>>
    ELSE <<At(g).x, 0>>

Accessing(g) ==
    Running(g) /\ At(g).op \in {"read", "load", "write", "renew"}

\* the mutexes g makes its access under
LockSet(g) ==
    {x \in Mutexes : amu[x] = g} \cup
    (IF At(g).mu = "" THEN {} ELSE {At(g).mu})

\* C23: no data race. No two goroutines are at accesses to the same
\* location, one of them a write, without a mutex that both hold.
NoDataRace ==
    \A g, h \in Goroutines :
        (/\ g # h
         /\ Accessing(g)
         /\ Accessing(h)
         /\ Location(g) = Location(h)
         /\ At(g).op \in {"write", "renew"})
        => LockSet(g) \cap LockSet(h) # {}

\* the slice indices of the jobs that are not completed
Kept == {i \in JobIdx : jobs[i].status # "completed"}

\* C24: clear_completed removes exactly the completed jobs. Whenever the
\* queue gets shorter, the jobs left are the ones that were not completed,
\* each with all its fields as before and in the same relative order.
ClearCompletedFrame ==
    [][Len(jobs') < Len(jobs) =>
        /\ Len(jobs') = Cardinality(Kept)
        /\ \A i \in Kept : \E k \in 1..Len(jobs') : jobs'[k] = jobs[i]
        /\ \A k, l \in 1..Len(jobs') :
              k < l => \E i, j \in Kept : /\ i < j
                                          /\ jobs[i] = jobs'[k]
                                          /\ jobs[j] = jobs'[l]]_vars

\* a completed job has been cleared; a failed job and a job still to be
\* printed are in the queue
WitnessClearCompletedFrame ==
    /\ Len(jobs) < nextPtr - 1
    /\ \E i, j \in JobIdx : /\ jobs[i].status = "failed"
                            /\ jobs[j].status \in {"queued", "printing"}
    /\ \A i \in JobIdx : jobs[i].status # "completed"

\* C25: Queue.stop() returns only after the worker has exited. Once Stop
\* has returned the worker stays exited, no job in the queue changes any
\* field, and no connect or print call is made.
StopWaitsForWorker ==
    [][StopReturned =>
        /\ wpc' = "exited"
        /\ conns' = conns
        /\ \A p \in Ptrs : /\ hist'[p].attempts = hist[p].attempts
                           /\ hist'[p].writes = hist[p].writes
        /\ \A i \in JobIdx, k \in 1..Len(jobs') :
              jobs'[k].ptr = jobs[i].ptr => jobs'[k] = jobs[i]]_vars

\* Stop has returned while a job is still queued and another has been
\* attempted
WitnessStopWaitsForWorker ==
    /\ StopReturned
    /\ \E i, j \in JobIdx : /\ jobs[i].status = "queued"
                            /\ jobs[j].retries > 0

\* C26: set_name(id, name) returns true and makes get_name(id) return name
\* when id is registered, an empty name included; it returns false and
\* changes nothing when id is unknown. No other entry, and no id, changes.
SetNameGetName ==
    [][regRet'.op = "set" =>
        LET id == regRet'.id
            known == KeysOfId(regData, id) # {}
        IN /\ regRet'.ok = known
           /\ known => GetPrinterName(regData', id) = regRet'.name
           /\ ~known => regData' = regData /\ regFile' = regFile
           /\ DOMAIN regData' = DOMAIN regData
           /\ \A k \in DOMAIN regData :
                 /\ regData'[k].ID = regData[k].ID
                 /\ regData[k].ID # id => regData'[k] = regData[k]]_vars

\* the name of one entry has been cleared while another entry is named
WitnessSetNameGetName ==
    /\ regRet.op = "set"
    /\ regRet.ok
    /\ regRet.name = ""
    /\ GetPrinterName(regData, regRet.id) = ""
    /\ \E k \in DOMAIN regData : regData[k].Name = "Kitchen"

\* C27: remove(id) returns true and deletes exactly the entry with that id,
\* after which get_info(id) is nil and get_name(id) is ""; for an unknown
\* id it returns false and leaves map and file as they are.
RemoveExactly ==
    [][regRet'.op = "remove" =>
        LET id == regRet'.id
            known == KeysOfId(regData, id) # {}
        IN /\ regRet'.ok = known
           /\ known => /\ GetPrinterInfo(regData', id) = {}
                       /\ GetPrinterName(regData', id) = ""
                       /\ DOMAIN regData' = DOMAIN regData \ KeysOfId(regData, id)
                       /\ \A k \in DOMAIN regData' : regData'[k] = regData[k]
           /\ ~known => regData' = regData /\ regFile' = regFile]_vars

\* an entry has been removed and another entry is still registered
WitnessRemoveExactly ==
    /\ regRet.op = "remove"
    /\ regRet.ok
    /\ GetPrinterInfo(regData, regRet.id) = {}
    /\ DOMAIN regData # {}

\* the number N of a print command whose only option is --repeat N, in
\* either spelling; a command without options stands for N = 1
RepeatGiven(opts) ==
    IF opts = <<>> THEN {1}
    ELSE IF Len(opts) = 2 /\ opts[1] = Word("--repeat") /\ Atoi(Str(opts[2])).ok
    THEN {Atoi(Str(opts[2])).val}
    ELSE IF Len(opts) = 1 /\ opts[1].head = "--repeat=" /\ Atoi(opts[1].tail).ok
    THEN {Atoi(opts[1].tail).val}
    ELSE {}

\* the jobs the last command has enqueued
Enqueued == {i \in JobIdx : i > result.base}

\* C28: print with --repeat N, for a known printer and a receipt that
\* loads, enqueues exactly N jobs for that printer when 1 <= N <= 100, no
\* flag counting as N = 1; any other N is rejected with a validation error
\* and enqueues nothing.
RepeatEnqueues ==
    (/\ cmd.pc = "idle"
     /\ Len(result.parts) >= 3
     /\ result.parts[1] = Word("print")
     /\ result.parts[2].head \in printers
     /\ result.receiptOk)
    => \A N \in RepeatGiven(SubSeq(result.parts, 4, Len(result.parts))) :
          IF N < 1 \/ N > 100
          THEN /\ ~result.Success
               /\ Enqueued = {}
               /\ result.Error \in {"--repeat must be >= 1",
                                    "--repeat too large (max 100)"}
          ELSE IF result.renderOk
          THEN /\ result.Success
               /\ result.repeat = N
               /\ result.jobIDs = N
               /\ Cardinality(Enqueued) = N
               /\ \A i \in Enqueued :
                     /\ jobs[i].printer = result.parts[2].head
                     /\ jobs[i].status = "queued"
          ELSE ~result.Success /\ Enqueued = {}

\* print --repeat 100 has returned with its hundred jobs in the queue
WitnessRepeatEnqueues ==
    /\ cmd.pc = "idle"
    /\ result.Success
    /\ result.repeat = 100
    /\ Cardinality(Enqueued) = 100
    /\ Len(result.parts) = 5

\* C29: executing server status succeeds; server stop and server restart
\* succeed and schedule the exit of the process with code 0 and 42.
ServerCommands ==
    (/\ cmd.pc = "idle"
     /\ Len(result.parts) = 2
     /\ result.parts[1] = Word("server"))
    => /\ result.Success
       /\ result.parts[2] = Word("stop") => exitTimer = 0
       /\ result.parts[2] = Word("restart") => exitTimer = 42

\* C30: the worker applies the result of an attempt only to the job it
\* promoted, and only if that job is in the queue with status printing; the
\* attempt changes no other job.
ResultAppliedToPromotedJob ==
    [][(wpc = "resolve" /\ wpc' = "idle") =>
        \A i \in JobIdx :
            jobs'[i] # jobs[i] => /\ jobs[i].ptr = cur.ptr
                                  /\ jobs[i].status = "printing"]_vars

\* the Manager of a server whose Monitor keeps calling DetectPrinters at every
\* tick and whose sweep goroutine keeps running
ManLiveSpec ==
    /\ RegInit
    /\ [][ManNext]_vars
    /\ WF_vars(\E S \in SUBSET Devices : ManagerDetectPrinters(S))
    /\ WF_vars(SweepHit \/ SweepCheck \/ SweepName \/ SweepInsert \/ SweepEnd)

\* the sweep has inserted its printer (its address answered the dial) and
\* the record is no longer in the live map: DetectPrinters replaced the map
SweepPrinterDropped ==
    /\ spc = "done"
    /\ sloc.printer.Type = "network"
    /\ sloc.printer.ID \notin DOMAIN live

\* C31: a printer the background sweep inserted and a DetectPrinters
\* replacement dropped is eventually in the live map again, under its id
SweepReacquired ==
    SweepPrinterDropped ~> (sloc.printer.ID \in DOMAIN live)

\* the tasks that have begun a write on the driver connection h and have
\* not been handed its result yet
Writing(h) == {t \in Tasks : ptask[t].pc = "writing" /\ ptask[t].conn = h}

\* the task holding p.mu cannot take its next step: it is in conn.Close(),
\* waiting for the mutex of a connection a write is in progress on
WaitsForWrite(t) ==
    /\ pmu = t
    /\ ptask[t].pc = "close"
    /\ ToClose(t) # {}
    /\ \A id \in ToClose(t) : Writing(connections[id]) # {}

\* C32: the pool lock is never held across a driver write. While a write on
\* some connection is in progress, p.mu is free, or the task that holds it
\* goes on to release it without waiting for that write, so that every
\* other pool call can take the lock.
PoolLockNotHeldAcrossWrite ==
    \A t \in Tasks : ~WaitsForWrite(t)

\* C33: the writes on one connection are mutually exclusive. At most one
\* write is in progress on a driver connection at a time: a second write
\* begins only after the first has returned.
WritesSerialized ==
    /\ [](\A h \in 1..Len(handles) :
            /\ Cardinality(Writing(h)) <= 1
            /\ Writing(h) = {handles[h].mu} \ {"none"})
    /\ [][\A t \in Tasks :
            (ptask[t].pc = "write" /\ ptask'[t].pc = "writing")
            => Writing(ptask[t].conn) = {}]_vars

\* two print calls target the same connection: one is in its write, the
\* other has looked the connection up and waits for c.mu
WitnessWritesSerialized ==
    /\ ptask["t1"].pc = "writing"
    /\ ptask["t2"].pc = "write"
    /\ ptask["t1"].conn = ptask["t2"].conn

\* C37: no write after close. No write begins on a driver connection that
\* Disconnect or DisconnectAll has closed.
NoWriteAfterClose ==
    [][\A t \in Tasks :
          (ptask[t].pc = "write" /\ ptask'[t].pc = "writing")
          => ~handles[ptask[t].conn].closed]_vars

\* the highest address of the subnet of ip/prefix: its broadcast address
Broadcast(ip, prefix) ==
    [k \in 1..4 |-> Mask(ip, prefix)[k] + (2 ^ (8 - MaskBits(prefix, k))) - 1]

\* C34: the sweep stays inside the subnet. Every address it dials lies in
\* the subnet of the interface and is neither its network nor its broadcast
\* address, and the last octet base + i does not exceed 255.
SweepInsideSubnet ==
    probe.dialled =>
        /\ Mask(probe.testIP, probe.prefix) = Mask(probe.ip, probe.prefix)
        /\ probe.testIP # Mask(probe.ip, probe.prefix)
        /\ probe.testIP # Broadcast(probe.ip, probe.prefix)
        /\ probe.ip4[4] + probe.i <= 255

\* C35: a manually added network printer stays in the live map. Once
\* AddNetworkPrinter has returned an id, GetPrinter finds a printer under
\* that id in every later state.
ManualPrinterStays ==
    addRet # NoId => addRet \in DOMAIN live

\* C39: Stop leaves no attempt half-resolved. Once Stop has returned, no job
\* has status printing.
StopLeavesNoPrinting ==
    StopReturned => \A i \in JobIdx : jobs[i].status # "printing"

\* C38: the registry and the live map agree on names. Whenever no
\* SetPrinterName call is in progress (DetectPrinters is one step), the name
\* of every printer in the live map is the name the registry holds for its id.
NamesAgree ==
    (\A c \in Callers : naming[c].pc = "idle")
        => \A id \in DOMAIN live : live[id].Name = GetPrinterName(regData, id)

\* g is at the test of a callback field, which invokes the callback when it
\* is set: if m.onPrinterAdded != nil { m.onPrinterAdded(printer) }
AtCallback(g) ==
    /\ Running(g)
    /\ At(g).op = "read"
    /\ At(g).x \in {"onPrinterAdded", "onPrinterRemoved"}

\* C36: callbacks are never invoked while m.mu is held. The goroutine that
\* invokes a callback does not hold m.mu, so a callback that calls
\* GetPrinter, GetAllPrinters, SetPrinterName or AddNetworkPrinter, which
\* all take m.mu, gets the lock and returns.
CallbacksOutsideLock ==
    \A g \in Goroutines : AtCallback(g) => amu["m.mu"] # g

\* no task is at work and the Monitor has seen the live map as it is: it
\* waits at its select, the sweep has returned, and the ids of the last
\* checkChanges are the ids of the live map
Quiescent ==
    /\ mpc = "select"
    /\ spc = "done"
    /\ previousPrinters = DOMAIN live

\* C40: the announcements match the live map. Once all tasks are quiescent,
\* the ids announced by onPrinterAdded and not by a later onPrinterRemoved
\* are the ids of the live map, and no id was announced by onPrinterAdded
\* twice with no onPrinterRemoved in between.
AnnouncementsMatch ==
    Quiescent => /\ announced.on = DOMAIN live
                 /\ announced.twice = {}

====
